---- MODULE Spec2Model ----
(***************************************************************************)
(* TSP solvers of the repository: the tour evaluator (utils/evaluator.py), *)
(* the bitmask-DP exact solver (algorithms/heldkarp.py), the MST           *)
(* approximation (algorithms/mstapproximation.py) and the hybrid solver    *)
(* (algorithms/proposedalgorithm.py).                                      *)
(*                                                                         *)
(* Distances are integers: the distance matrix of a TSPInstance is any     *)
(* list of lists handed to the constructor, and integer coordinates with   *)
(* MAN_2D (or collinear points with EUC_2D) give integer entries.  Tours   *)
(* are sequences (1-indexed) of 0-based city indices, as in the code.      *)
(* Instances carry a precomputed matrix (large_instance = False).          *)
(***************************************************************************)
EXTENDS Integers, Sequences, FiniteSets, TLC

VARIABLES tsp_instance, call, result, internals, previous, hash_seed

vars == <<tsp_instance, call, result, internals, previous, hash_seed>>

-----------------------------------------------------------------------------
(* Bounds of the enumerated inputs *)

\* largest dimension of the exhaustively enumerated instances
MaxN == 4
\* the two distances between the points of the enumerated instances; with 1 and
\* 3 there are instances that break the triangle inequality and instances that keep it
ShortDist == 1
LongDist == 3
\* nearest_neighbor_tour / farthest_insertion_tour are called with start in 0..MaxStart
MaxStart == 1
\* the interpreter that makes a second invocation is started with PYTHONHASHSEED
\* SecondHashSeed, the one that makes the first with 0
SecondHashSeed == 1
\* the spanning-tree solvers are called on instances of at most MaxTreeN points
MaxTreeN == 13
\* calculate_tour_cost is called with tours of at most MaxTourLen cities
MaxTourLen == 2
\* build_tour_from_mst is called with lists of at most MaxEdges edges over at
\* most MaxEdges cities
MaxEdges == 3
\* the size of the uniform instance on which the search, called without a time
\* limit, is followed node by node beyond its node budget
BudgetN == 9

(* Program constants *)

\* float('inf')
Inf == 2147483647
\* held_karp_simple: if n > 20
HeldKarpLimit == 20
\* solve_mst_prim: min_cost.append(999999)
PrimInitCost == 999999
\* solve_mst_prim / solve_mst_kruskal: if num_cities < 3
MstMinCities == 3
\* solve_mst_approx: if city_count < 500
KruskalLimit == 500
\* solve_hybrid_algorithm: if n <= 12
HybridSearchLimit == 12
\* solve_hybrid_algorithm: elif n <= 100
HybridInsertionLimit == 100
\* simple_branch_bound: time_limit: int = 10
DefaultTimeLimit == 10
\* simple_branch_bound: if n > 15
SearchSkipLimit == 15
\* branch_bound_recursive: nodes_checked > 50000
NodeBudget == 50000

-----------------------------------------------------------------------------
(* Instances *)

Abs(x) == IF x < 0 THEN -x ELSE x

\* utils/tsp_parser.py manhattan_distance
manhattan_distance(coord1, coord2) ==
    Abs(coord1[1] - coord2[1]) + Abs(coord1[2] - coord2[2])

\* utils/tsp_parser.py calculate_distance_matrix with MAN_2D; coordinates is a
\* function on 0..n-1
calculate_distance_matrix(coordinates, n) ==
    [i \in 0..(n - 1) |-> [j \in 0..(n - 1) |->
        IF i = j THEN 0 ELSE manhattan_distance(coordinates[i], coordinates[j])]]

\* TSPInstance(name, coordinates, distance_matrix, dimension, large_instance=False)
TSPInstance(distance_matrix, dimension) ==
    [dimension |-> dimension, distance_matrix |-> distance_matrix]

Pairs(n) == {p \in (0..(n - 1)) \X (0..(n - 1)) : p[1] < p[2]}

\* the symmetric, zero-diagonal matrix with weight w[<<i, j>>] between i < j
SymmetricMatrix(n, w) ==
    [i \in 0..(n - 1) |-> [j \in 0..(n - 1) |->
        IF i = j THEN 0 ELSE IF i < j THEN w[<<i, j>>] ELSE w[<<j, i>>]]]

\* every symmetric instance of dimension 0..MaxN with distances ShortDist or LongDist
EnumeratedInstances ==
    UNION {{TSPInstance(SymmetricMatrix(n, w), n) : w \in [Pairs(n) -> {ShortDist, LongDist}]}
           : n \in 0..MaxN}

\* the position that a list of n elements reads at index i: a negative index
\* counts from the end of the list
py_index(n, i) == IF i < 0 THEN i + n ELSE i

\* distance_matrix[i][j], the matrix being a list of its rows
MatrixEntry(distance_matrix, i, j) ==
    IF i >= 0 /\ j >= 0 THEN distance_matrix[i][j]
    ELSE LET row == distance_matrix[py_index(Cardinality(DOMAIN distance_matrix), i)]
         IN  row[py_index(Cardinality(DOMAIN row), j)]

\* tsp_instance.get_distance / proposedalgorithm.get_distance, large_instance False
get_distance(inst, i, j) == MatrixEntry(inst.distance_matrix, i, j)

-----------------------------------------------------------------------------
(* utils/evaluator.py *)

RECURSIVE SumTourEdges(_, _, _)
SumTourEdges(tour, distance_matrix, i) ==
    IF i > Len(tour) THEN 0
    ELSE MatrixEntry(distance_matrix, tour[i], tour[(i % Len(tour)) + 1])
         + SumTourEdges(tour, distance_matrix, i + 1)

\* calculate_tour_cost summing the edges of an empty tour as of any other
calculate_tour_cost_NoEmptyTest(tour, distance_matrix) ==
    SumTourEdges(tour, distance_matrix, 1)

calculate_tour_cost(tour, distance_matrix) ==
    IF tour = <<>> THEN Inf ELSE SumTourEdges(tour, distance_matrix, 1)

\* is_valid_tour comparing the sets of cities only, not the lengths
is_valid_tour_NoLength(tour, n_cities) ==
    {tour[i] : i \in 1..Len(tour)} = 0..(n_cities - 1)

is_valid_tour(tour, n_cities) ==
    IF Len(tour) # n_cities THEN FALSE
    ELSE {tour[i] : i \in 1..Len(tour)} = 0..(n_cities - 1)

-----------------------------------------------------------------------------
(* Outcomes of a call: what it returned or raised, and in trace the local    *)
(* state the function had built when it ended (<<>> when it built none)      *)

Returned(tour, cost) == [raised |-> "none", tour |-> tour, cost |-> cost, trace |-> <<>>]
Raised(kind) == [raised |-> kind, tour |-> <<>>, cost |-> -1, trace |-> <<>>]
Traced(r, t) == [r EXCEPT !.trace = t]

IsSentinel(r) == r.raised = "none" /\ r.tour = <<>> /\ r.cost = Inf

-----------------------------------------------------------------------------
(* Python's min / max over a set of cities with a key: the first element in  *)
(* iteration order that attains the extreme.  A set is iterated in the order *)
(* of the slots of its hash table, and the sets of cities hold non-negative  *)
(* integers below the size of their table, each in the slot of its hash.     *)
(* hash_seed is the PYTHONHASHSEED of the interpreter that runs the next     *)
(* invocation: it salts the hashes of str and bytes, and no hash of an int.  *)

\* a hash salted like that of a str: under an odd seed the cities hash in the
\* opposite order
py_hash_Salted(city) == (1 - 2 * (hash_seed % 2)) * city

\* hash(city) of a non-negative int
py_hash(city) == city

py_min(S, key) ==
    CHOOSE c \in S : \A d \in S :
        key[c] < key[d] \/ (key[c] = key[d] /\ py_hash(c) <= py_hash(d))

py_max(S, key) ==
    CHOOSE c \in S : \A d \in S :
        key[c] > key[d] \/ (key[c] = key[d] /\ py_hash(c) <= py_hash(d))

\* min(...) over a non-empty set of numbers
MinOf(S) == CHOOSE x \in S : \A y \in S : x <= y

-----------------------------------------------------------------------------
(* algorithms/proposedalgorithm.py: construction heuristics *)

\* one iteration of the while loop of nearest_neighbor_tour
NearestNeighborStep(inst, s) ==
    LET nearest == py_min(s.unvisited,
                          [city \in s.unvisited |-> get_distance(inst, s.current, city)])
    IN  [tour |-> Append(s.tour, nearest),
         unvisited |-> s.unvisited \ {nearest},
         current |-> nearest]

RECURSIVE NearestNeighborLoop(_, _)
NearestNeighborLoop(inst, s) ==
    IF s.unvisited = {} THEN s.tour
    ELSE NearestNeighborLoop(inst, NearestNeighborStep(inst, s))

\* distance_matrix[start] raises IndexError unless -n <= start < n: with no city
\* in calculate_tour_cost, and otherwise in the first min(...) of the loop; a
\* negative start is no element of set(range(n)), so that every city is unvisited
nearest_neighbor_tour(inst, start) ==
    LET n == inst.dimension
    IN  IF start \notin (-n)..(n - 1) THEN Raised("IndexError")
        ELSE LET tour == NearestNeighborLoop(inst, [tour |-> <<start>>,
                                                    unvisited |-> (0..(n - 1)) \ {start},
                                                    current |-> start])
             IN  Returned(tour, calculate_tour_cost(tour, inst.distance_matrix))

\* the cost increase of inserting best_city after tour[i] (i is 1-based here)
InsertionIncrease(inst, tour, best_city, i) ==
    LET j == (i % Len(tour)) + 1
        old_cost == get_distance(inst, tour[i], tour[j])
        new_cost == get_distance(inst, tour[i], best_city)
                    + get_distance(inst, best_city, tour[j])
    IN  new_cost - old_cost

\* best_insertion_pos always taking the end of the tour
best_insertion_pos_AtEnd(inst, tour, best_city) == Len(tour)

\* the for loop over the insertion positions: the first position whose increase
\* is strictly below all earlier ones and not above any later one
best_insertion_pos(inst, tour, best_city) ==
    LET increase == [i \in 1..Len(tour) |-> InsertionIncrease(inst, tour, best_city, i)]
    IN  py_min(1..Len(tour), increase)

\* tour.insert(pos, city) with pos counted as in the code (0-based)
ListInsert(tour, pos, city) ==
    SubSeq(tour, 1, pos) \o <<city>> \o SubSeq(tour, pos + 1, Len(tour))

\* one iteration of the while loop of farthest_insertion_tour
FarthestInsertionStep(inst, tour, unvisited) ==
    LET best_city == py_max(unvisited,
                            [city \in unvisited |->
                                MinOf({get_distance(inst, city, tour[i]) : i \in 1..Len(tour)})])
        best_pos == best_insertion_pos(inst, tour, best_city)
    IN  [tour |-> ListInsert(tour, best_pos, best_city),
         unvisited |-> unvisited \ {best_city}]

RECURSIVE FarthestInsertionLoop(_, _, _)
FarthestInsertionLoop(inst, tour, unvisited) ==
    IF unvisited = {} THEN tour
    ELSE LET s == FarthestInsertionStep(inst, tour, unvisited)
         IN  FarthestInsertionLoop(inst, s.tour, s.unvisited)

farthest_insertion_tour(inst, start) ==
    LET n == inst.dimension
    IN  IF n <= 2 THEN nearest_neighbor_tour(inst, start)
        ELSE IF start \notin (-n)..(n - 1) THEN Raised("IndexError")
        ELSE LET unvisited == (0..(n - 1)) \ {start}
                 farthest == py_max(unvisited,
                                    [city \in unvisited |-> get_distance(inst, start, city)])
                 tour == FarthestInsertionLoop(inst, <<start, farthest>>,
                                               unvisited \ {farthest})
             IN  Returned(tour, calculate_tour_cost(tour, inst.distance_matrix))

-----------------------------------------------------------------------------
(* algorithms/proposedalgorithm.py: bounded exact search                     *)
(*                                                                           *)
(* The clock is an input: time.time() reads the wall clock, which may be set *)
(* forward or back while the search runs, so that the test                   *)
(* time.time() - start_time > time_limit can succeed at a node and fail at   *)
(* a later one, whatever finite time_limit is.  With time_limit =            *)
(* float('inf') the test fails at every node, whatever the clock reads.      *)
(* clock is the list of what the test evaluates to, clock[k] at the k-th     *)
(* node entered; a search that enters more nodes than the list has readings  *)
(* finds the test failing at them.                                           *)
(*                                                                           *)
(* for next_city in remaining takes the cities in the order of the slots of  *)
(* the set's hash table, so remaining is kept as the sequence of its cities  *)
(* in that order.  An integer hashes to itself.  set(range(1, n)) has every  *)
(* city in the slot of its own number (n <= 15: the table has 8 slots up to  *)
(* 4 cities and 32 from the 5th on).  remaining - {next_city} is a new set   *)
(* filled from remaining in its order: it has 32 slots once it holds 5       *)
(* cities, and 8 slots before, where city c goes to slot c % 8 and, while    *)
(* the slot is taken, on to slot (5 * i + 1) % 8.                            *)

\* the time limits simple_branch_bound is called with: its default, and none
TimeLimits == {DefaultTimeLimit, Inf}

\* what time.time() - start_time > time_limit can evaluate to at a node
TestOutcomes(time_limit) == IF time_limit = Inf THEN {FALSE} ELSE {TRUE, FALSE}

TimeExpired(clock, nodes_checked) ==
    nodes_checked <= Len(clock) /\ clock[nodes_checked]

\* the time test of the search never succeeds under clock
NeverExpires(clock) == \A k \in 1..Len(clock) : ~clock[k]

\* the cities of a sequence
CitiesOf(tour) == {tour[i] : i \in 1..Len(tour)}

\* the cities of S in increasing order
Ascending(S) ==
    [k \in 1..Cardinality(S) |-> CHOOSE x \in S : Cardinality({y \in S : y < x}) = k - 1]

\* set(range(1, n)) in iteration order
py_set_range(n) == [k \in 1..(n - 1) |-> k]

\* the free slot a key reaches in a table of 8 slots, probing from slot i
RECURSIVE ProbeSlot(_, _)
ProbeSlot(table, i) ==
    IF table[i] = -1 THEN i ELSE ProbeSlot(table, (5 * i + 1) % 8)

\* the table of 8 slots after adding keys[k], keys[k + 1], ... in turn
RECURSIVE FillSlots(_, _, _)
FillSlots(table, keys, k) ==
    IF k > Len(keys) THEN table
    ELSE FillSlots([table EXCEPT ![ProbeSlot(table, py_hash(keys[k]) % 8)] = keys[k]], keys, k + 1)

\* the keys of a table of 8 slots in slot order
SlotOrder(table) ==
    LET used == {i \in 0..7 : table[i] # -1}
        slots == Ascending(used)
    IN  [k \in 1..Cardinality(used) |-> table[slots[k]]]

\* remaining - {next_city} in iteration order
py_set_difference(remaining, next_city) ==
    LET kept == SelectSeq(remaining, LAMBDA city : city # next_city)
    IN  IF Len(kept) >= 5 THEN Ascending(CitiesOf(kept))
        ELSE SlotOrder(FillSlots([i \in 0..7 |-> -1], kept, 1))

\* the inner loop of bound_calculation: min over j # i of the distance
RECURSIVE MinEdgeScan(_, _, _, _, _)
MinEdgeScan(inst, remaining, ci, cj, min_edge) ==
    IF cj >= inst.dimension THEN min_edge
    ELSE IF cj \in remaining /\ cj # ci /\ get_distance(inst, ci, cj) < min_edge
         THEN MinEdgeScan(inst, remaining, ci, cj + 1, get_distance(inst, ci, cj))
         ELSE MinEdgeScan(inst, remaining, ci, cj + 1, min_edge)

RECURSIVE MinCostScan(_, _, _)
MinCostScan(inst, remaining, ci) ==
    IF ci >= inst.dimension THEN 0
    ELSE (IF ci \in remaining THEN MinEdgeScan(inst, remaining, ci, 0, Inf) ELSE 0)
         + MinCostScan(inst, remaining, ci + 1)

\* bound_calculation returning min_cost, not its half
twice_bound_calculation_NoHalf(inst, partial_tour, remaining) ==
    IF Cardinality(remaining) <= 1 THEN 0
    ELSE 2 * MinCostScan(inst, remaining, 0)

\* bound_calculation returns min_cost * 0.5; this is min_cost, twice its value,
\* so that the comparison stays in the integers
twice_bound_calculation(inst, partial_tour, remaining) ==
    IF Cardinality(remaining) <= 1 THEN 0
    ELSE MinCostScan(inst, remaining, 0)

\* ctx is the closure state: best_tour, best_cost, nodes_checked
RECURSIVE branch_bound_recursive(_, _, _, _, _, _)
RECURSIVE BranchLoop(_, _, _, _, _, _, _)

branch_bound_recursive(inst, clock, ctx, current_tour, remaining, current_cost) ==
    LET entered == [ctx EXCEPT !.nodes_checked = @ + 1]
    IN  IF TimeExpired(clock, entered.nodes_checked)
           \/ entered.nodes_checked > NodeBudget
        THEN entered
        ELSE IF remaining = <<>>
        THEN LET total_cost == current_cost
             IN  IF total_cost < entered.best_cost
                 THEN [entered EXCEPT !.best_tour = current_tour, !.best_cost = total_cost]
                 ELSE entered
        ELSE IF 2 * current_cost
                + twice_bound_calculation(inst, current_tour, CitiesOf(remaining))
                >= 2 * entered.best_cost
        THEN entered
        ELSE BranchLoop(inst, clock, entered, current_tour, remaining, current_cost, 1)

\* for next_city in remaining, from the k-th city of the iteration on
BranchLoop(inst, clock, ctx, current_tour, remaining, current_cost, k) ==
    IF k > Len(remaining) THEN ctx
    ELSE LET next_city == remaining[k]
             current_city == current_tour[Len(current_tour)]
             new_cost == current_cost + get_distance(inst, current_city, next_city)
             after == IF new_cost < ctx.best_cost
                      THEN branch_bound_recursive(inst, clock, ctx,
                                                  Append(current_tour, next_city),
                                                  py_set_difference(remaining, next_city),
                                                  new_cost)
                      ELSE ctx
         IN  BranchLoop(inst, clock, after, current_tour, remaining, current_cost, k + 1)

\* the closure state when simple_branch_bound returns (n <= 15, baseline returned)
SearchContext(inst, clock, baseline) ==
    branch_bound_recursive(inst, clock,
                           [best_tour |-> baseline.tour, best_cost |-> baseline.cost,
                            nodes_checked |-> 0],
                           <<0>>, py_set_range(inst.dimension), 0)

\* the clocks that extend clock and have one reading for every node the search
\* enters under them.  The search enters a node under every extension of clock
\* when it enters it with the test failing from the end of clock on: the test
\* fails at all these nodes, or it succeeds at one of them after failing at
\* those before
RECURSIVE ClocksFrom(_, _, _, _)
ClocksFrom(inst, time_limit, baseline, clock) ==
    LET entered == SearchContext(inst, clock, baseline).nodes_checked
        failing(k) == clock \o [i \in 1..(k - Len(clock)) |-> FALSE]
    IN  {failing(entered)}
        \cup IF TRUE \in TestOutcomes(time_limit)
             THEN UNION {ClocksFrom(inst, time_limit, baseline, Append(failing(k - 1), TRUE))
                         : k \in (Len(clock) + 1)..entered}
             ELSE {}

\* what the time test can evaluate to during simple_branch_bound(inst, time_limit):
\* a reading at every node entered, none when the search is not started
Clocks(inst, time_limit) ==
    LET baseline == nearest_neighbor_tour(inst, 0)
    IN  IF baseline.raised # "none" \/ inst.dimension > SearchSkipLimit THEN {<<>>}
        ELSE ClocksFrom(inst, time_limit, baseline, <<>>)

simple_branch_bound(inst, clock) ==
    LET n == inst.dimension
        baseline == nearest_neighbor_tour(inst, 0)
    IN  IF baseline.raised # "none" THEN baseline
        ELSE IF n > SearchSkipLimit THEN baseline
        ELSE LET ctx == SearchContext(inst, clock, baseline)
             IN  Traced(Returned(ctx.best_tour, ctx.best_cost),
                        [baseline |-> baseline.cost, nodes_checked |-> ctx.nodes_checked])

\* HybridBranch with the second threshold off by one
HybridBranch_OffByOne(n) ==
    IF n <= HybridSearchLimit THEN "simple_branch_bound"
    ELSE IF n <= HybridInsertionLimit + 1 THEN "nearest_and_farthest"
    ELSE "nearest_neighbor"

\* the branch solve_hybrid_algorithm takes for an instance of dimension n
HybridBranch(n) ==
    IF n <= HybridSearchLimit THEN "simple_branch_bound"
    ELSE IF n <= HybridInsertionLimit THEN "nearest_and_farthest"
    ELSE "nearest_neighbor"

\* solve_hybrid_algorithm with the comparison of the two heuristics reversed
solve_hybrid_algorithm_Reversed(inst, clock) ==
    LET branch == HybridBranch(inst.dimension)
    IN  IF branch = "simple_branch_bound"
        THEN LET r == simple_branch_bound(inst, clock)
             IN  Traced(r, [invoked |-> {"simple_branch_bound"}])
        ELSE IF branch = "nearest_and_farthest"
        THEN LET nn == nearest_neighbor_tour(inst, 0)
                 fi == farthest_insertion_tour(inst, 0)
             IN  Traced(IF nn.cost >= fi.cost THEN nn ELSE fi,
                        [invoked |-> {"nearest_neighbor_tour", "farthest_insertion_tour"}])
        ELSE Traced(nearest_neighbor_tour(inst, 0), [invoked |-> {"nearest_neighbor_tour"}])

solve_hybrid_algorithm(inst, clock) ==
    LET branch == HybridBranch(inst.dimension)
    IN  IF branch = "simple_branch_bound"
        THEN LET r == simple_branch_bound(inst, clock)
             IN  Traced(r, [invoked |-> {"simple_branch_bound"}])
        ELSE IF branch = "nearest_and_farthest"
        THEN LET nn == nearest_neighbor_tour(inst, 0)
                 fi == farthest_insertion_tour(inst, 0)
             IN  Traced(IF nn.cost <= fi.cost THEN nn ELSE fi,
                        [invoked |-> {"nearest_neighbor_tour", "farthest_insertion_tour"}])
        ELSE Traced(nearest_neighbor_tour(inst, 0), [invoked |-> {"nearest_neighbor_tour"}])

-----------------------------------------------------------------------------
(* algorithms/mstapproximation.py: build_tour_from_mst                       *)
(* Edges are pairs <<a, b>>; lists are sequences.                            *)

\* adjacency_lists after the two loops over mst_edges and doubled_edges
RECURSIVE BuildAdjacency(_, _, _)
BuildAdjacency(mst_edges, idx, adjacency_lists) ==
    IF idx > Len(mst_edges) THEN adjacency_lists
    ELSE LET first_city == mst_edges[idx][1]
             second_city == mst_edges[idx][2]
             withEdge1 == [adjacency_lists EXCEPT ![first_city] = Append(@, second_city)]
             withEdge2 == [withEdge1 EXCEPT ![second_city] = Append(@, first_city)]
         IN  BuildAdjacency(mst_edges, idx + 1, withEdge2)

\* one iteration of the while loop over node_stack
TraversalStep(t) ==
    LET current_node == t.node_stack[Len(t.node_stack)]
        adj == t.adjacency_lists[current_node]
    IN  IF Len(adj) > 0
        THEN [t EXCEPT !.adjacency_lists[current_node] = SubSeq(adj, 1, Len(adj) - 1),
                       !.node_stack = Append(@, adj[Len(adj)])]
        ELSE [t EXCEPT !.node_stack = SubSeq(@, 1, Len(@) - 1),
                       !.traversal_path = Append(@, current_node)]

RECURSIVE TraversalLoop(_)
TraversalLoop(t) ==
    IF Len(t.node_stack) = 0 THEN t ELSE TraversalLoop(TraversalStep(t))

ReverseSeq(path) == [i \in 1..Len(path) |-> path[Len(path) + 1 - i]]

\* Shortcut without the test of city_visited: every occurrence is kept
Shortcut_KeepsRepeats(reversed_path, path_pos, hamiltonian_cycle, city_visited) ==
    reversed_path

\* keep the first occurrence of every city of reversed_path
RECURSIVE Shortcut(_, _, _, _)
Shortcut(reversed_path, path_pos, hamiltonian_cycle, city_visited) ==
    IF path_pos > Len(reversed_path) THEN hamiltonian_cycle
    ELSE LET current_city == reversed_path[path_pos]
         IN  IF current_city \notin city_visited
             THEN Shortcut(reversed_path, path_pos + 1,
                           Append(hamiltonian_cycle, current_city),
                           city_visited \cup {current_city})
             ELSE Shortcut(reversed_path, path_pos + 1, hamiltonian_cycle, city_visited)

\* AppendRemaining without the safety net: the unreached cities are left out
AppendRemaining_None(hamiltonian_cycle, remaining_city, n) == hamiltonian_cycle

\* append the cities never reached, in increasing order
RECURSIVE AppendRemaining(_, _, _)
AppendRemaining(hamiltonian_cycle, remaining_city, n) ==
    IF remaining_city >= n THEN hamiltonian_cycle
    ELSE IF \E i \in 1..Len(hamiltonian_cycle) : hamiltonian_cycle[i] = remaining_city
    THEN AppendRemaining(hamiltonian_cycle, remaining_city + 1, n)
    ELSE AppendRemaining(Append(hamiltonian_cycle, remaining_city), remaining_city + 1, n)

\* build_tour_from_mst summing the tour as an open path, without the edge back
\* to the first city
build_tour_from_mst_OpenPath(mst_edges, n, inst) ==
    IF n = 0 THEN Raised("IndexError") ELSE
    LET adjacency_lists == BuildAdjacency(mst_edges, 1, [city_index \in 0..(n - 1) |-> <<>>])
        done == TraversalLoop([adjacency_lists |-> adjacency_lists,
                               node_stack |-> <<0>>, traversal_path |-> <<>>])
        reversed_path == ReverseSeq(done.traversal_path)
        hamiltonian_cycle == AppendRemaining(Shortcut(reversed_path, 1, <<>>, {}), 0, n)
    IN  Traced(Returned(hamiltonian_cycle,
                        calculate_tour_cost(hamiltonian_cycle, inst.distance_matrix)
                        - inst.distance_matrix[hamiltonian_cycle[n]][hamiltonian_cycle[1]]),
               [tree_edges |-> mst_edges,
                traversal_path |-> done.traversal_path,
                adjacency_lists |-> done.adjacency_lists])

build_tour_from_mst(mst_edges, n, inst) ==
    IF n = 0 THEN Raised("IndexError") ELSE
    LET adjacency_lists == BuildAdjacency(mst_edges, 1, [city_index \in 0..(n - 1) |-> <<>>])
        done == TraversalLoop([adjacency_lists |-> adjacency_lists,
                               node_stack |-> <<0>>, traversal_path |-> <<>>])
        reversed_path == ReverseSeq(done.traversal_path)
        hamiltonian_cycle == AppendRemaining(Shortcut(reversed_path, 1, <<>>, {}), 0, n)
    IN  Traced(Returned(hamiltonian_cycle,
                        calculate_tour_cost(hamiltonian_cycle, inst.distance_matrix)),
               [tree_edges |-> mst_edges,
                traversal_path |-> done.traversal_path,
                adjacency_lists |-> done.adjacency_lists])

-----------------------------------------------------------------------------
(* solve_mst_prim *)

\* one iteration of the for loop over step: the scan for current_min (the first
\* unvisited node of least min_cost), the tree edge, and the relaxation of the
\* unvisited neighbors
PrimStep(inst, p) ==
    LET n == inst.dimension
        current_min == py_min((0..(n - 1)) \ p.is_visited, p.min_cost)
        is_visited == p.is_visited \cup {current_min}
        relaxed == {neighbor \in (0..(n - 1)) \ is_visited :
                       inst.distance_matrix[current_min][neighbor] < p.min_cost[neighbor]}
    IN  [is_visited |-> is_visited,
         tree_edges |-> IF p.parent_node[current_min] # -1
                        THEN Append(p.tree_edges, <<p.parent_node[current_min], current_min>>)
                        ELSE p.tree_edges,
         min_cost |-> [neighbor \in 0..(n - 1) |->
                          IF neighbor \in relaxed
                          THEN inst.distance_matrix[current_min][neighbor]
                          ELSE p.min_cost[neighbor]],
         parent_node |-> [neighbor \in 0..(n - 1) |->
                             IF neighbor \in relaxed THEN current_min
                             ELSE p.parent_node[neighbor]]]

RECURSIVE PrimLoop(_, _, _)
PrimLoop(inst, p, step) ==
    IF step >= inst.dimension THEN p ELSE PrimLoop(inst, PrimStep(inst, p), step + 1)

\* tree_edges when the for loop of solve_mst_prim ends
prim_tree_edges(inst) ==
    LET n == inst.dimension
    IN  PrimLoop(inst,
                 [is_visited |-> {},
                  min_cost |-> [i \in 0..(n - 1) |-> IF i = 0 THEN 0 ELSE PrimInitCost],
                  parent_node |-> [i \in 0..(n - 1) |-> -1],
                  tree_edges |-> <<>>],
                 0).tree_edges

\* solve_mst_prim accepting two cities
solve_mst_prim_TwoCities(inst) ==
    LET num_cities == inst.dimension
    IN  IF num_cities < MstMinCities - 1 THEN Raised("ValueError")
        ELSE build_tour_from_mst(prim_tree_edges(inst), num_cities, inst)

solve_mst_prim(inst) ==
    LET num_cities == inst.dimension
    IN  IF num_cities < MstMinCities THEN Raised("ValueError")
        ELSE build_tour_from_mst(prim_tree_edges(inst), num_cities, inst)

-----------------------------------------------------------------------------
(* solve_mst_kruskal: edges are tuples <<weight, city1, city2>> *)

\* all_edges_list: city1 ascending, then city2 ascending
RECURSIVE AllEdgesFrom(_, _)
AllEdgesFrom(inst, city1) ==
    IF city1 >= inst.dimension THEN <<>>
    ELSE [k \in 1..(inst.dimension - 1 - city1) |->
             <<inst.distance_matrix[city1][city1 + k], city1, city1 + k>>]
         \o AllEdgesFrom(inst, city1 + 1)

\* Python's order on tuples
TupleLess(a, b) ==
    \/ a[1] < b[1]
    \/ a[1] = b[1] /\ a[2] < b[2]
    \/ a[1] = b[1] /\ a[2] = b[2] /\ a[3] < b[3]

\* list.sort() of a list without repeated elements: the element at position k
\* is the one with k - 1 smaller elements
ListSort(list) ==
    LET elems == {list[i] : i \in 1..Len(list)}
        rank == [e \in elems |-> Cardinality({f \in elems : TupleLess(f, e)})]
    IN  [k \in 1..Len(list) |-> CHOOSE e \in elems : rank[e] = k - 1]

\* find_root with path compression: the root and the updated node_parent
RECURSIVE find_root(_, _)
find_root(node_parent, node) ==
    IF node_parent[node] # node
    THEN LET up == find_root(node_parent, node_parent[node])
         IN  [root |-> up.root, node_parent |-> [up.node_parent EXCEPT ![node] = up.root]]
    ELSE [root |-> node, node_parent |-> node_parent]

connect_nodes(node_parent, node1, node2) ==
    LET f1 == find_root(node_parent, node1)
        f2 == find_root(f1.node_parent, node2)
    IN  IF f1.root # f2.root
        THEN [connected |-> TRUE, node_parent |-> [f2.node_parent EXCEPT ![f1.root] = f2.root]]
        ELSE [connected |-> FALSE, node_parent |-> f2.node_parent]

\* the selection loop over sorted_edges, with its break
RECURSIVE KruskalLoop(_, _, _, _, _)
KruskalLoop(sorted_edges, i, total_cities, node_parent, selected_edges) ==
    IF i > Len(sorted_edges) THEN selected_edges
    ELSE LET node1 == sorted_edges[i][2]
             node2 == sorted_edges[i][3]
             c == connect_nodes(node_parent, node1, node2)
         IN  IF c.connected
             THEN IF Len(selected_edges) + 1 = total_cities - 1
                  THEN Append(selected_edges, <<node1, node2>>)
                  ELSE KruskalLoop(sorted_edges, i + 1, total_cities, c.node_parent,
                                   Append(selected_edges, <<node1, node2>>))
             ELSE KruskalLoop(sorted_edges, i + 1, total_cities, c.node_parent,
                              selected_edges)

\* selected_edges when the selection loop ends
kruskal_selected_edges(inst) ==
    LET total_cities == inst.dimension
        sorted_edges == ListSort(AllEdgesFrom(inst, 0))
    IN  KruskalLoop(sorted_edges, 1, total_cities, [i \in 0..(total_cities - 1) |-> i], <<>>)

solve_mst_kruskal(inst) ==
    LET total_cities == inst.dimension
    IN  IF total_cities < MstMinCities THEN Raised("ValueError")
        ELSE build_tour_from_mst(kruskal_selected_edges(inst), total_cities, inst)

solve_mst_approx(inst) ==
    LET city_count == inst.dimension
    IN  IF city_count < KruskalLimit
        THEN LET prim_result == solve_mst_prim(inst)
             IN  IF prim_result.raised # "none" THEN prim_result
                 ELSE LET kruskal_result == solve_mst_kruskal(inst)
                      IN  IF kruskal_result.raised # "none" THEN kruskal_result
                          ELSE IF prim_result.cost <= kruskal_result.cost
                          THEN Traced(prim_result,
                                      [tree_edges |-> prim_result.trace.tree_edges,
                                       ran |-> {"solve_mst_prim", "solve_mst_kruskal"}])
                          ELSE Traced(kruskal_result,
                                      [tree_edges |-> kruskal_result.trace.tree_edges,
                                       ran |-> {"solve_mst_prim", "solve_mst_kruskal"}])
        ELSE LET r == solve_mst_prim(inst)
             IN  IF r.raised # "none" THEN r
                 ELSE Traced(r, [tree_edges |-> r.trace.tree_edges,
                                 ran |-> {"solve_mst_prim"}])

-----------------------------------------------------------------------------
(* algorithms/heldkarp.py: masks are the integers of the code *)

\* mask & (1 << i)
Bit(mask, i) == (mask \div (2 ^ i)) % 2 = 1

\* mask ^ (1 << i)
FlipBit(mask, i) == IF Bit(mask, i) THEN mask - 2 ^ i ELSE mask + 2 ^ i

\* the while loop counting the set bits of mask
RECURSIVE bits_count(_)
bits_count(temp) == IF temp > 0 THEN (temp % 2) + bits_count(temp \div 2) ELSE 0

\* dp and parent are kept as one table: table[<<mask, last>>] = [cost, parent]
HeldKarpBase(inst) ==
    [key \in {<<1 + 2 ^ i, i>> : i \in 1..(inst.dimension - 1)} |->
        [cost |-> inst.distance_matrix[0][key[2]], parent |-> 0]]

\* ScanPrev keeping the first prev it finds, whatever the later ones cost
RECURSIVE ScanPrev_FirstFound(_, _, _, _, _, _)
ScanPrev_FirstFound(inst, table, prev_mask, last, prev, best) ==
    IF prev >= inst.dimension THEN best
    ELSE IF prev # last /\ Bit(prev_mask, prev) /\ <<prev_mask, prev>> \in DOMAIN table
            /\ best.parent = -1
    THEN ScanPrev_FirstFound(inst, table, prev_mask, last, prev + 1,
                  [cost |-> table[<<prev_mask, prev>>].cost + inst.distance_matrix[prev][last],
                   parent |-> prev])
    ELSE ScanPrev_FirstFound(inst, table, prev_mask, last, prev + 1, best)

\* the for loop over prev = 0..n-1 for one (mask, last)
RECURSIVE ScanPrev(_, _, _, _, _, _)
ScanPrev(inst, table, prev_mask, last, prev, best) ==
    IF prev >= inst.dimension THEN best
    ELSE IF prev # last /\ Bit(prev_mask, prev) /\ <<prev_mask, prev>> \in DOMAIN table
            /\ table[<<prev_mask, prev>>].cost + inst.distance_matrix[prev][last] < best.cost
    THEN ScanPrev(inst, table, prev_mask, last, prev + 1,
                  [cost |-> table[<<prev_mask, prev>>].cost + inst.distance_matrix[prev][last],
                   parent |-> prev])
    ELSE ScanPrev(inst, table, prev_mask, last, prev + 1, best)

\* the entries one pass of the subset_size loop adds; every entry it reads was
\* written by an earlier pass, so the order of the masks within a pass is immaterial
HeldKarpLayer(inst, table, subset_size) ==
    LET n == inst.dimension
        masks == {mask \in 0..(2 ^ n - 1) : bits_count(mask) = subset_size /\ Bit(mask, 0)}
        keys == UNION {{<<mask, last>> : last \in {l \in 1..(n - 1) : Bit(mask, l)}}
                       : mask \in masks}
        scanned == [key \in keys |->
                       ScanPrev(inst, table, FlipBit(key[1], key[2]), key[2], 0,
                                [cost |-> Inf, parent |-> -1])]
        added == {key \in keys : scanned[key].parent # -1}
    IN  [key \in added |-> scanned[key]]

RECURSIVE HeldKarpFill(_, _, _)
HeldKarpFill(inst, table, subset_size) ==
    IF subset_size > inst.dimension THEN table
    ELSE HeldKarpFill(inst, table @@ HeldKarpLayer(inst, table, subset_size),
                      subset_size + 1)

\* the table when the subset_size loop ends
HeldKarpTable(inst) == HeldKarpFill(inst, HeldKarpBase(inst), 3)

\* ScanLast comparing the path costs, without the edge back to city 0
RECURSIVE ScanLast_NoReturnEdge(_, _, _, _, _)
ScanLast_NoReturnEdge(inst, table, final_mask, i, best) ==
    IF i >= inst.dimension THEN best
    ELSE IF <<final_mask, i>> \in DOMAIN table
            /\ table[<<final_mask, i>>].cost < best.min_cost
    THEN ScanLast_NoReturnEdge(inst, table, final_mask, i + 1,
                               [min_cost |-> table[<<final_mask, i>>].cost, last_city |-> i])
    ELSE ScanLast_NoReturnEdge(inst, table, final_mask, i + 1, best)

\* the for loop choosing last_city
RECURSIVE ScanLast(_, _, _, _, _)
ScanLast(inst, table, final_mask, i, best) ==
    IF i >= inst.dimension THEN best
    ELSE IF <<final_mask, i>> \in DOMAIN table
            /\ table[<<final_mask, i>>].cost + inst.distance_matrix[i][0] < best.min_cost
    THEN ScanLast(inst, table, final_mask, i + 1,
                  [min_cost |-> table[<<final_mask, i>>].cost + inst.distance_matrix[i][0],
                   last_city |-> i])
    ELSE ScanLast(inst, table, final_mask, i + 1, best)

\* the while loop following the parent links
RECURSIVE FollowParents(_, _, _, _)
FollowParents(table, mask, curr, path) ==
    IF mask = 0 \/ curr = -1 THEN path
    ELSE IF <<mask, curr>> \notin DOMAIN table THEN Append(path, curr)
    ELSE FollowParents(table, FlipBit(mask, curr), table[<<mask, curr>>].parent,
                       Append(path, curr))

\* held_karp_simple testing the size after the base cases are stored
held_karp_simple_LateGuard(inst) ==
    LET n == inst.dimension
        dist == inst.distance_matrix
    IN  IF n > HeldKarpLimit
        THEN Traced(Returned(<<>>, Inf), [table |-> HeldKarpBase(inst)])
        ELSE LET table == HeldKarpTable(inst)
                 final_mask == 2 ^ n - 1
                 chosen == ScanLast(inst, table, final_mask, 1,
                                    [min_cost |-> Inf, last_city |-> -1])
             IN  IF chosen.last_city = -1
                 THEN Traced(Returned(<<>>, Inf), [table |-> table])
                 ELSE LET followed == FollowParents(table, final_mask, chosen.last_city, <<>>)
                          path == IF followed = <<>> \/ followed[Len(followed)] # 0
                                  THEN Append(followed, 0) ELSE followed
                          tour == ReverseSeq(path)
                      IN  Traced(Returned(tour, calculate_tour_cost(tour, dist)),
                                 [table |-> table])

held_karp_simple(inst) ==
    LET n == inst.dimension
        dist == inst.distance_matrix
    IN  IF n > HeldKarpLimit THEN Returned(<<>>, Inf)
        ELSE LET table == HeldKarpTable(inst)
                 final_mask == 2 ^ n - 1
                 chosen == ScanLast(inst, table, final_mask, 1,
                                    [min_cost |-> Inf, last_city |-> -1])
             IN  IF chosen.last_city = -1
                 THEN Traced(Returned(<<>>, Inf), [table |-> table])
                 ELSE LET followed == FollowParents(table, final_mask, chosen.last_city, <<>>)
                          path == IF followed = <<>> \/ followed[Len(followed)] # 0
                                  THEN Append(followed, 0) ELSE followed
                          tour == ReverseSeq(path)
                      IN  Traced(Returned(tour, calculate_tour_cost(tour, dist)),
                                 [table |-> table])

solve_held_karp(inst, limit) == held_karp_simple(inst)

-----------------------------------------------------------------------------
(* The instances the callers hand to the solvers *)

\* parse_tsp_file on a file of n lines of integer coordinates with
\* EDGE_WEIGHT_TYPE MAN_2D, n below the 50000 of a large instance: it raises
\* ValueError when the file has no coordinates
ParsedInstance(coordinates, n) ==
    IF n = 0 THEN Raised("ValueError")
    ELSE TSPInstance(calculate_distance_matrix(coordinates, n), n)

\* n scattered points of a 101 x 13 grid
ScatteredInstance(n) == ParsedInstance([i \in 0..(n - 1) |-> <<(37 * i) % 101, (11 * i) % 13>>], n)

\* four points further apart than the initial min_cost of solve_mst_prim
FarApartInstance ==
    ParsedInstance([i \in 0..3 |-> <<PrimInitCost * (i % 2), PrimInitCost * (i \div 2)>>], 4)

\* two pairs of near points, the pairs further apart than the initial min_cost
TwoClustersInstance ==
    ParsedInstance([i \in 0..3 |-> <<PrimInitCost * (i % 2) + (i \div 2), 0>>], 4)

\* the square (0,0), (0,1), (1,1), (1,0); its sides are 1 under either metric
UnitSquareInstance ==
    ParsedInstance([i \in 0..3 |-> <<i \div 2, IF i \in {1, 2} THEN 1 ELSE 0>>], 4)

\* n points at distance ShortDist from one another
UniformInstance(n) == TSPInstance(SymmetricMatrix(n, [p \in Pairs(n) |-> ShortDist]), n)

\* instances past the size thresholds of the solvers
ThresholdInstances ==
    {ScatteredInstance(n) : n \in {HybridSearchLimit + 1, HeldKarpLimit + 1,
                                   HybridInsertionLimit + 1}}
    \cup {UniformInstance(HybridSearchLimit + 1)}

Instances ==
    EnumeratedInstances \cup ThresholdInstances
    \cup {UnitSquareInstance, FarApartInstance, TwoClustersInstance}

\* the limit arguments handed to solve_held_karp
LimitArgs == {HeldKarpLimit - 10, HeldKarpLimit, HeldKarpLimit + 10}

-----------------------------------------------------------------------------
(* The state machine: a caller picks an instance and calls one entry point,   *)
(* and may call an entry point that reads no clock a second time on the same *)
(* instance, in an interpreter started with another hash seed; previous is   *)
(* then what the first invocation returned or raised.                        *)

NotCalled == [fn |-> "none", arg |-> 0]
NoResult == [raised |-> "not_called", tour |-> <<>>, cost |-> -1]

\* the entry points that are invoked a second time
DeterministicSolvers ==
    {"held_karp_simple", "solve_held_karp", "solve_mst_prim", "solve_mst_kruskal",
     "solve_mst_approx", "nearest_neighbor_tour", "farthest_insertion_tour"}

Init ==
    /\ tsp_instance \in Instances
    /\ call = NotCalled
    /\ result = NoResult
    /\ internals = <<>>
    /\ previous = NoResult
    /\ hash_seed = 0

\* fn has not been invoked yet, or has been invoked once with the argument arg
Invokes(fn, arg) ==
    \/ call = NotCalled
    \/ call.fn = fn /\ call.arg = arg /\ previous = NoResult

\* fn(tsp_instance, arg) ended with outcome r; a second invocation is made by
\* an interpreter of its own
Ends(fn, arg, r) ==
    /\ call' = [fn |-> fn, arg |-> arg]
    /\ result' = [raised |-> r.raised, tour |-> r.tour, cost |-> r.cost]
    /\ internals' = r.trace
    /\ previous' = IF call = NotCalled THEN NoResult ELSE result
    /\ hash_seed' = IF call = NotCalled /\ fn \in DeterministicSolvers
                    THEN SecondHashSeed ELSE hash_seed
    /\ UNCHANGED tsp_instance

\* the dynamic program is run on the enumerated instances, and the solver that
\* holds it is called on every instance it declines
RunsExactSolver(inst) == inst.dimension <= MaxN \/ inst.dimension > HeldKarpLimit
\* the search is run under every clock on the enumerated instances of fewer than
\* MaxN points and on the three instances of four points given by coordinates
RunsTimedSearch(inst) ==
    \/ inst.dimension < MaxN
    \/ inst \in {UnitSquareInstance, FarApartInstance, TwoClustersInstance}
\* simple_branch_bound is also called on every instance it declines
RunsSearch(inst) == RunsTimedSearch(inst) \/ inst.dimension > SearchSkipLimit
\* solve_hybrid_algorithm is also called on every instance it hands to the heuristics
RunsHybrid(inst) == RunsTimedSearch(inst) \/ inst.dimension > HybridSearchLimit
\* farthest insertion is called on the sizes solve_hybrid_algorithm calls it on
\* and below
RunsInsertion(inst) == inst.dimension <= HybridInsertionLimit
RunsTree(inst) == inst.dimension <= MaxTreeN

CallHeldKarpSimple ==
    /\ Invokes("held_karp_simple", 0)
    /\ RunsExactSolver(tsp_instance)
    /\ Ends("held_karp_simple", 0, held_karp_simple(tsp_instance))

CallSolveHeldKarp ==
    /\ RunsExactSolver(tsp_instance)
    /\ \E limit \in LimitArgs :
          /\ Invokes("solve_held_karp", limit)
          /\ Ends("solve_held_karp", limit, solve_held_karp(tsp_instance, limit))

CallSolveMstPrim ==
    /\ Invokes("solve_mst_prim", 0)
    /\ RunsTree(tsp_instance)
    /\ Ends("solve_mst_prim", 0, solve_mst_prim(tsp_instance))

CallSolveMstKruskal ==
    /\ Invokes("solve_mst_kruskal", 0)
    /\ RunsTree(tsp_instance)
    /\ Ends("solve_mst_kruskal", 0, solve_mst_kruskal(tsp_instance))

CallSolveMstApprox ==
    /\ Invokes("solve_mst_approx", 0)
    /\ RunsTree(tsp_instance)
    /\ Ends("solve_mst_approx", 0, solve_mst_approx(tsp_instance))

\* the start arguments: the default 0 and the cities up to MaxStart
StartArgs(n) == {0} \cup {start \in 0..MaxStart : start < n}

CallNearestNeighborTour ==
    /\ \E start \in StartArgs(tsp_instance.dimension) :
          /\ Invokes("nearest_neighbor_tour", start)
          /\ Ends("nearest_neighbor_tour", start, nearest_neighbor_tour(tsp_instance, start))

CallFarthestInsertionTour ==
    /\ RunsInsertion(tsp_instance)
    /\ \E start \in StartArgs(tsp_instance.dimension) :
          /\ Invokes("farthest_insertion_tour", start)
          /\ Ends("farthest_insertion_tour", start, farthest_insertion_tour(tsp_instance, start))

CallSimpleBranchBound ==
    /\ call = NotCalled
    /\ RunsSearch(tsp_instance)
    /\ \E time_limit \in TimeLimits :
          \E clock \in Clocks(tsp_instance, time_limit) :
             Ends("simple_branch_bound", [time_limit |-> time_limit, clock |-> clock],
                  simple_branch_bound(tsp_instance, clock))

\* simple_branch_bound is called with its default time limit; the clock is read
\* in the branch of the search only
CallSolveHybridAlgorithm ==
    /\ call = NotCalled
    /\ RunsHybrid(tsp_instance)
    /\ \E clock \in IF tsp_instance.dimension <= HybridSearchLimit
                     THEN Clocks(tsp_instance, DefaultTimeLimit) ELSE {<<>>} :
          Ends("solve_hybrid_algorithm", clock,
               solve_hybrid_algorithm(tsp_instance, clock))

\* the value a function of the evaluator returned
Value(v) == [raised |-> "none", value |-> v]

\* the lists of at most len elements of S
SeqsUpTo(S, len) == UNION {[1..k -> S] : k \in 0..len}

\* calculate_tour_cost(tour, distance_matrix) with a list of cities of the instance,
\* the empty list included
CallCalculateTourCost ==
    /\ call = NotCalled
    /\ tsp_instance.dimension <= MaxN
    /\ \E tour \in SeqsUpTo(0..(tsp_instance.dimension - 1), MaxTourLen) :
          /\ call' = [fn |-> "calculate_tour_cost", arg |-> tour]
          /\ result' = Value(calculate_tour_cost(tour, tsp_instance.distance_matrix))
          /\ internals' = <<>>
          /\ UNCHANGED <<tsp_instance, hash_seed, previous>>

\* is_valid_tour(tour, instance.dimension) with any list of at most dimension + 1
\* integers from -1 to dimension; it reads nothing of the instance but its
\* dimension, and is called with the uniform instance of each dimension
CallIsValidTour ==
    /\ call = NotCalled
    /\ tsp_instance.dimension <= MaxN
    /\ tsp_instance = UniformInstance(tsp_instance.dimension)
    /\ \E tour \in SeqsUpTo((-1)..tsp_instance.dimension, tsp_instance.dimension + 1) :
          /\ call' = [fn |-> "is_valid_tour", arg |-> tour]
          /\ result' = Value(is_valid_tour(tour, tsp_instance.dimension))
          /\ internals' = <<>>
          /\ UNCHANGED <<tsp_instance, hash_seed, previous>>

\* build_tour_from_mst(mst_edges, n, tsp_instance) with any list of at most
\* MaxEdges edges over at most MaxEdges cities, loops and repeated edges
\* included; the tour does not depend on the distances, and it is called with
\* the uniform instance of each dimension
CallBuildTourFromMst ==
    /\ call = NotCalled
    /\ tsp_instance.dimension <= MaxEdges
    /\ tsp_instance = UniformInstance(tsp_instance.dimension)
    /\ LET cities == 0..(tsp_instance.dimension - 1)
       IN  \E mst_edges \in SeqsUpTo(cities \X cities, MaxEdges) :
              Ends("build_tour_from_mst", mst_edges,
                   build_tour_from_mst(mst_edges, tsp_instance.dimension, tsp_instance))

Next ==
    \/ CallCalculateTourCost
    \/ CallBuildTourFromMst
    \/ CallIsValidTour
    \/ CallHeldKarpSimple
    \/ CallSolveHeldKarp
    \/ CallSolveMstPrim
    \/ CallSolveMstKruskal
    \/ CallSolveMstApprox
    \/ CallNearestNeighborTour
    \/ CallFarthestInsertionTour
    \/ CallSimpleBranchBound
    \/ CallSolveHybridAlgorithm

Spec == Init /\ [][Next]_vars

-----------------------------------------------------------------------------
(* simple_branch_bound node by node.  While the search runs, internals holds *)
(* its closure state (best_tour, best_cost, nodes_checked) and the stack of  *)
(* the active calls of branch_bound_recursive; a frame is at "entry" until   *)
(* its tests are done and at "loop" while its for loop runs, todo being the  *)
(* cities the loop has not reached yet, in iteration order like remaining.   *)
(* call.arg is the time limit of the call.  The clock is read at every       *)
(* entry: expired_at is the node at which the time test first succeeded (0   *)
(* while it has not).                                                        *)

\* the uniform instance of BudgetN points
BudgetInstance == UniformInstance(BudgetN)

\* the instances of the search: the enumerated instances of fewer than MaxN
\* points, the uniform and the scattered instance of MaxN points, the three
\* instances of four points given by coordinates, the instance of BudgetN points
\* and an instance the search declines
SearchInstances ==
    {inst \in EnumeratedInstances : inst.dimension < MaxN}
    \cup {UniformInstance(MaxN), ScatteredInstance(MaxN)}
    \cup {UnitSquareInstance, FarApartInstance, TwoClustersInstance}
    \cup {BudgetInstance, ScatteredInstance(HeldKarpLimit + 1)}

SearchInit ==
    /\ tsp_instance \in SearchInstances
    /\ call = NotCalled
    /\ result = NoResult
    /\ internals = <<>>
    /\ previous = NoResult
    /\ hash_seed = 0

Frame(current_tour, remaining, current_cost) ==
    [current_tour |-> current_tour, remaining |-> remaining,
     current_cost |-> current_cost, pc |-> "entry", todo |-> <<>>]

Searching == call.fn = "simple_branch_bound" /\ result = NoResult
Top == internals.stack[Len(internals.stack)]
Pop(stack) == SubSeq(stack, 1, Len(stack) - 1)
AtEntry == Searching /\ Len(internals.stack) > 0 /\ Top.pc = "entry"
InLoop == Searching /\ Len(internals.stack) > 0 /\ Top.pc = "loop"

\* the time limits of the calls: either limit on the instances of up to MaxN
\* points, none on the instance of BudgetN points
SearchLimits(inst) == IF inst.dimension <= MaxN THEN TimeLimits ELSE {Inf}

\* what time.time() - start_time > time_limit can evaluate to at the node that
\* is entered.  The wall clock may step back, so that under a finite limit the
\* test can succeed or fail at every node, whatever it did before
ClockReadings == TestOutcomes(call.arg)

\* nodes_checked += 1 and the cutoff test failing
Enters ==
    /\ AtEntry
    /\ FALSE \in ClockReadings
    /\ internals.nodes_checked + 1 <= NodeBudget

\* simple_branch_bound up to the first call of branch_bound_recursive
StartSearch ==
    /\ call = NotCalled
    /\ LET n == tsp_instance.dimension
           baseline == nearest_neighbor_tour(tsp_instance, 0)
       IN  /\ baseline.raised = "none"
           /\ n <= SearchSkipLimit
           /\ \E time_limit \in SearchLimits(tsp_instance) :
                 call' = [fn |-> "simple_branch_bound", arg |-> time_limit]
           /\ internals' = [baseline |-> baseline.cost,
                            best_tour |-> baseline.tour,
                            best_cost |-> baseline.cost,
                            nodes_checked |-> 0,
                            expired_at |-> 0,
                            stack |-> <<Frame(<<0>>, py_set_range(n), 0)>>]
           /\ UNCHANGED <<tsp_instance, hash_seed, result, previous>>

\* simple_branch_bound ending before any search: the baseline raises, or n > 15
DeclineSearch ==
    /\ call = NotCalled
    /\ LET baseline == nearest_neighbor_tour(tsp_instance, 0)
       IN  /\ baseline.raised # "none" \/ tsp_instance.dimension > SearchSkipLimit
           /\ \E time_limit \in TimeLimits :
                 Ends("simple_branch_bound", time_limit, baseline)

\* nodes_checked += 1; the cutoff test succeeds; return
CutOff ==
    /\ AtEntry
    /\ \E time_up \in ClockReadings :
          /\ time_up \/ internals.nodes_checked + 1 > NodeBudget
          /\ internals' = [internals EXCEPT
                              !.nodes_checked = @ + 1,
                              !.expired_at = IF time_up /\ @ = 0
                                             THEN internals.nodes_checked + 1 ELSE @,
                              !.stack = Pop(@)]
    /\ UNCHANGED <<tsp_instance, hash_seed, call, result, previous>>

\* CompleteTour comparing the cost of the open path and storing the cost of
\* the closed tour
CompleteTour_StoresClosedCost ==
    /\ Enters
    /\ Top.remaining = <<>>
    /\ LET total_cost == Top.current_cost
           closed_cost == calculate_tour_cost(Top.current_tour, tsp_instance.distance_matrix)
       IN  internals' = [internals EXCEPT
                            !.nodes_checked = @ + 1,
                            !.best_tour = IF total_cost < internals.best_cost
                                          THEN Top.current_tour ELSE @,
                            !.best_cost = IF total_cost < internals.best_cost
                                          THEN closed_cost ELSE @,
                            !.stack = Pop(@)]
    /\ UNCHANGED <<tsp_instance, hash_seed, call, result, previous>>

\* if not remaining: the tour is complete; best_tour and best_cost are replaced
\* when total_cost < best_cost; return
CompleteTour ==
    /\ Enters
    /\ Top.remaining = <<>>
    /\ LET total_cost == Top.current_cost
       IN  internals' = [internals EXCEPT
                            !.nodes_checked = @ + 1,
                            !.best_tour = IF total_cost < internals.best_cost
                                          THEN Top.current_tour ELSE @,
                            !.best_cost = IF total_cost < internals.best_cost
                                          THEN total_cost ELSE @,
                            !.stack = Pop(@)]
    /\ UNCHANGED <<tsp_instance, hash_seed, call, result, previous>>

\* twice the bound of the node: 2 * (current_cost + bound_calculation(...))
TwiceBound(frame) ==
    2 * frame.current_cost
    + twice_bound_calculation(tsp_instance, frame.current_tour, CitiesOf(frame.remaining))

\* if bound >= best_cost: return
Prune ==
    /\ Enters
    /\ Top.remaining # <<>>
    /\ TwiceBound(Top) >= 2 * internals.best_cost
    /\ internals' = [internals EXCEPT !.nodes_checked = @ + 1,
                                      !.stack = Pop(@)]
    /\ UNCHANGED <<tsp_instance, hash_seed, call, result, previous>>

\* the node passes its tests and starts its for loop over remaining
Expand ==
    /\ Enters
    /\ Top.remaining # <<>>
    /\ TwiceBound(Top) < 2 * internals.best_cost
    /\ internals' = [internals EXCEPT
                         !.nodes_checked = @ + 1,
                         !.stack[Len(internals.stack)].pc = "loop",
                         !.stack[Len(internals.stack)].todo = Top.remaining]
    /\ UNCHANGED <<tsp_instance, hash_seed, call, result, previous>>

\* one iteration of the for loop: the recursive call when new_cost < best_cost
Branch ==
    /\ InLoop
    /\ Top.todo # <<>>
    /\ LET next_city == Head(Top.todo)
           current_city == Top.current_tour[Len(Top.current_tour)]
           new_cost == Top.current_cost + get_distance(tsp_instance, current_city, next_city)
           advanced == [internals.stack EXCEPT ![Len(internals.stack)].todo = Tail(@)]
       IN  internals' = [internals EXCEPT
                            !.stack = IF new_cost < internals.best_cost
                                      THEN Append(advanced,
                                                  Frame(Append(Top.current_tour, next_city),
                                                        py_set_difference(Top.remaining,
                                                                          next_city),
                                                        new_cost))
                                      ELSE advanced]
    /\ UNCHANGED <<tsp_instance, hash_seed, call, result, previous>>

\* the for loop is exhausted: return
LoopEnd ==
    /\ InLoop
    /\ Top.todo = <<>>
    /\ internals' = [internals EXCEPT !.stack = Pop(@)]
    /\ UNCHANGED <<tsp_instance, hash_seed, call, result, previous>>

\* return best_tour, best_cost
ReturnBest ==
    /\ Searching
    /\ Len(internals.stack) = 0
    /\ result' = [raised |-> "none", tour |-> internals.best_tour,
                  cost |-> internals.best_cost]
    /\ UNCHANGED <<tsp_instance, hash_seed, call, internals, previous>>

SearchNext ==
    \/ StartSearch
    \/ DeclineSearch
    \/ CutOff
    \/ CompleteTour
    \/ Prune
    \/ Expand
    \/ Branch
    \/ LoopEnd
    \/ ReturnBest

SearchSpec == SearchInit /\ [][SearchNext]_vars

-----------------------------------------------------------------------------
(* solve_mst_approx loop by loop.  While it runs, internals holds the locals *)
(* of solve_mst_prim and of the build_tour_from_mst it calls, one action     *)
(* being one iteration of the loop that pc names; ran is the set of the      *)
(* constructions called so far and branch the side of the test               *)
(* city_count < 500 that was taken.  The edge-sort construction              *)
(* is one step.                                                               *)

\* the instance of KruskalLimit points
DenseInstance == ScatteredInstance(KruskalLimit)

\* four points on which the tour of the dense construction costs 14 and the tour
\* of the edge-sort construction 10
EdgeSortCheaperInstance ==
    LET points == <<<<1, 0>>, <<0, 2>>, <<3, 2>>, <<2, 0>>>>
    IN  ParsedInstance([i \in 0..3 |-> points[i + 1]], 4)

\* five points on which the tour of the dense construction costs 12 and the tour
\* of the edge-sort construction 16
DenseCheaperInstance ==
    LET points == <<<<1, 3>>, <<3, 0>>, <<3, 3>>, <<1, 0>>, <<0, 0>>>>
    IN  ParsedInstance([i \in 0..4 |-> points[i + 1]], 5)

ApproxInstances ==
    EnumeratedInstances
    \cup {UnitSquareInstance, EdgeSortCheaperInstance, DenseCheaperInstance, DenseInstance}

ApproxInit ==
    /\ tsp_instance \in ApproxInstances
    /\ call = NotCalled
    /\ result = NoResult
    /\ internals = <<>>
    /\ previous = NoResult
    /\ hash_seed = 0

Approximating == call.fn = "solve_mst_approx" /\ result = NoResult
InLoopOf(pc) == Approximating /\ internals.pc = pc

\* the locals of solve_mst_prim before its for loop
PrimLocals(n) ==
    [is_visited |-> {},
     min_cost |-> [i \in 0..(n - 1) |-> IF i = 0 THEN 0 ELSE PrimInitCost],
     parent_node |-> [i \in 0..(n - 1) |-> -1],
     tree_edges |-> <<>>]

\* solve_mst_approx calls solve_mst_prim, on the side branch of its test
CallsPrim(branch) ==
    /\ call = NotCalled
    /\ tsp_instance.dimension >= MstMinCities
    /\ call' = [fn |-> "solve_mst_approx", arg |-> 0]
    /\ internals' = [pc |-> "prim", branch |-> branch, ran |-> {"solve_mst_prim"},
                     step |-> 0, prim |-> PrimLocals(tsp_instance.dimension),
                     edge_idx |-> 0, adjacency_lists |-> <<>>, node_stack |-> <<>>,
                     traversal_path |-> <<>>, reversed_path |-> <<>>, path_pos |-> 0,
                     hamiltonian_cycle |-> <<>>, city_visited |-> {},
                     remaining_city |-> 0, i |-> 0, total_cost |-> 0,
                     prim_result |-> NoResult, kruskal_result |-> NoResult]
    /\ UNCHANGED <<tsp_instance, hash_seed, result, previous>>

\* city_count < 500: prim_result_tour, prim_result_cost = solve_mst_prim(...)
StartBoth ==
    /\ tsp_instance.dimension < KruskalLimit
    /\ CallsPrim("both")

\* else: final_tour, final_cost = solve_mst_prim(...)
StartDenseOnly ==
    /\ ~(tsp_instance.dimension < KruskalLimit)
    /\ CallsPrim("dense")

\* solve_mst_prim raises ValueError("Too few cities") on either branch
DeclineApprox ==
    /\ call = NotCalled
    /\ tsp_instance.dimension < MstMinCities
    /\ call' = [fn |-> "solve_mst_approx", arg |-> 0]
    /\ result' = [raised |-> "ValueError", tour |-> <<>>, cost |-> -1]
    /\ UNCHANGED <<tsp_instance, hash_seed, internals, previous>>

\* one iteration of for step in range(num_cities)
PrimIterate ==
    /\ InLoopOf("prim")
    /\ internals.step < tsp_instance.dimension
    /\ internals' = [internals EXCEPT !.prim = PrimStep(tsp_instance, @), !.step = @ + 1]
    /\ UNCHANGED <<tsp_instance, hash_seed, call, result, previous>>

\* build_tour_from_mst(tree_edges, num_cities, tsp_instance) is entered: the
\* adjacency lists are created empty
BuildTourEntry ==
    /\ InLoopOf("prim")
    /\ internals.step = tsp_instance.dimension
    /\ internals' = [internals EXCEPT
                         !.pc = "edges",
                         !.adjacency_lists = [city_index \in 0..(tsp_instance.dimension - 1)
                                                 |-> <<>>]]
    /\ UNCHANGED <<tsp_instance, hash_seed, call, result, previous>>

\* one tree edge goes into the adjacency lists, in both directions
AddEdge ==
    /\ InLoopOf("edges")
    /\ internals.edge_idx < Len(internals.prim.tree_edges)
    /\ LET first_city == internals.prim.tree_edges[internals.edge_idx + 1][1]
           second_city == internals.prim.tree_edges[internals.edge_idx + 1][2]
           withEdge1 == [internals.adjacency_lists EXCEPT
                            ![first_city] = Append(@, second_city)]
           withEdge2 == [withEdge1 EXCEPT ![second_city] = Append(@, first_city)]
       IN  internals' = [internals EXCEPT !.adjacency_lists = withEdge2, !.edge_idx = @ + 1]
    /\ UNCHANGED <<tsp_instance, hash_seed, call, result, previous>>

\* node_stack = [0]; traversal_path = []
StartTraversal ==
    /\ InLoopOf("edges")
    /\ internals.edge_idx = Len(internals.prim.tree_edges)
    /\ internals' = [internals EXCEPT !.pc = "traverse", !.node_stack = <<0>>]
    /\ UNCHANGED <<tsp_instance, hash_seed, call, result, previous>>

\* one iteration of while len(node_stack) > 0
Traverse ==
    /\ InLoopOf("traverse")
    /\ Len(internals.node_stack) > 0
    /\ internals' = TraversalStep(internals)
    /\ UNCHANGED <<tsp_instance, hash_seed, call, result, previous>>

\* the path is reversed; hamiltonian_cycle and city_visited are created
ReversePath ==
    /\ InLoopOf("traverse")
    /\ Len(internals.node_stack) = 0
    /\ internals' = [internals EXCEPT
                         !.pc = "shortcut",
                         !.reversed_path = ReverseSeq(internals.traversal_path)]
    /\ UNCHANGED <<tsp_instance, hash_seed, call, result, previous>>

\* one iteration of for path_pos in range(len(reversed_path))
ShortcutStep ==
    /\ InLoopOf("shortcut")
    /\ internals.path_pos < Len(internals.reversed_path)
    /\ LET current_city == internals.reversed_path[internals.path_pos + 1]
       IN  internals' = [internals EXCEPT
                            !.path_pos = @ + 1,
                            !.hamiltonian_cycle = IF current_city \notin internals.city_visited
                                                  THEN Append(@, current_city) ELSE @,
                            !.city_visited = @ \cup {current_city}]
    /\ UNCHANGED <<tsp_instance, hash_seed, call, result, previous>>

\* one iteration of for remaining_city in range(n)
RemainingStep ==
    /\ InLoopOf("shortcut")
    /\ internals.path_pos = Len(internals.reversed_path)
    /\ internals.remaining_city < tsp_instance.dimension
    /\ internals' = [internals EXCEPT
                         !.remaining_city = @ + 1,
                         !.hamiltonian_cycle =
                             IF internals.remaining_city \notin internals.city_visited
                             THEN Append(@, internals.remaining_city) ELSE @]
    /\ UNCHANGED <<tsp_instance, hash_seed, call, result, previous>>

\* calculate_tour_cost is entered with hamiltonian_cycle, which is not empty
CostEntry ==
    /\ InLoopOf("shortcut")
    /\ internals.path_pos = Len(internals.reversed_path)
    /\ internals.remaining_city = tsp_instance.dimension
    /\ internals.hamiltonian_cycle # <<>>
    /\ internals' = [internals EXCEPT !.pc = "cost"]
    /\ UNCHANGED <<tsp_instance, hash_seed, call, result, previous>>

\* one iteration of for i in range(n) of calculate_tour_cost
CostStep ==
    /\ InLoopOf("cost")
    /\ internals.i < Len(internals.hamiltonian_cycle)
    /\ LET tour == internals.hamiltonian_cycle
           current_city == tour[internals.i + 1]
           next_city == tour[((internals.i + 1) % Len(tour)) + 1]
       IN  internals' = [internals EXCEPT
                            !.i = @ + 1,
                            !.total_cost = @ + tsp_instance.distance_matrix[current_city][next_city]]
    /\ UNCHANGED <<tsp_instance, hash_seed, call, result, previous>>

\* calculate_tour_cost, build_tour_from_mst and solve_mst_prim return
PrimReturns ==
    /\ InLoopOf("cost")
    /\ internals.i = Len(internals.hamiltonian_cycle)
    /\ internals' = [internals EXCEPT
                         !.pc = "returned",
                         !.prim_result = [raised |-> "none",
                                          tour |-> internals.hamiltonian_cycle,
                                          cost |-> internals.total_cost]]
    /\ UNCHANGED <<tsp_instance, hash_seed, call, result, previous>>

\* kruskal_result_tour, kruskal_result_cost = solve_mst_kruskal(tsp_instance)
RunKruskal ==
    /\ InLoopOf("returned")
    /\ internals.branch = "both"
    /\ LET r == solve_mst_kruskal(tsp_instance)
       IN  internals' = [internals EXCEPT
                            !.pc = "compare",
                            !.ran = @ \cup {"solve_mst_kruskal"},
                            !.kruskal_result = [raised |-> r.raised, tour |-> r.tour,
                                                cost |-> r.cost]]
    /\ UNCHANGED <<tsp_instance, hash_seed, call, result, previous>>

\* ReturnCheaper keeping the edge-sort tour when the two costs are equal
ReturnCheaper_TieToKruskal ==
    /\ InLoopOf("compare")
    /\ result' = IF internals.prim_result.cost < internals.kruskal_result.cost
                 THEN internals.prim_result ELSE internals.kruskal_result
    /\ UNCHANGED <<tsp_instance, hash_seed, call, internals, previous>>

\* if prim_result_cost <= kruskal_result_cost: return the one, else the other
ReturnCheaper ==
    /\ InLoopOf("compare")
    /\ result' = IF internals.prim_result.cost <= internals.kruskal_result.cost
                 THEN internals.prim_result ELSE internals.kruskal_result
    /\ UNCHANGED <<tsp_instance, hash_seed, call, internals, previous>>

\* return final_tour, final_cost
ReturnDense ==
    /\ InLoopOf("returned")
    /\ internals.branch = "dense"
    /\ result' = internals.prim_result
    /\ UNCHANGED <<tsp_instance, hash_seed, call, internals, previous>>

ApproxNext ==
    \/ StartBoth
    \/ StartDenseOnly
    \/ DeclineApprox
    \/ PrimIterate
    \/ BuildTourEntry
    \/ AddEdge
    \/ StartTraversal
    \/ Traverse
    \/ ReversePath
    \/ ShortcutStep
    \/ RemainingStep
    \/ CostEntry
    \/ CostStep
    \/ PrimReturns
    \/ RunKruskal
    \/ ReturnCheaper
    \/ ReturnDense

ApproxSpec == ApproxInit /\ [][ApproxNext]_vars

-----------------------------------------------------------------------------
(* farthest_insertion_tour iteration by iteration.  While it runs, internals *)
(* holds tour and unvisited as they are at the test of the while loop.       *)

InsertionInstances ==
    EnumeratedInstances
    \cup {UnitSquareInstance, DenseCheaperInstance,
          ScatteredInstance(HybridSearchLimit + 1), ScatteredInstance(HeldKarpLimit + 1)}

InsertionInit ==
    /\ tsp_instance \in InsertionInstances
    /\ call = NotCalled
    /\ result = NoResult
    /\ internals = <<>>
    /\ previous = NoResult
    /\ hash_seed = 0

Inserting == call.fn = "farthest_insertion_tour" /\ result = NoResult /\ DOMAIN internals # {}

\* n <= 2: return nearest_neighbor_tour(tsp_instance, start)
DelegateToNearest ==
    /\ call = NotCalled
    /\ tsp_instance.dimension <= 2
    /\ \E start \in StartArgs(tsp_instance.dimension) :
          LET r == nearest_neighbor_tour(tsp_instance, start)
          IN  /\ call' = [fn |-> "farthest_insertion_tour", arg |-> start]
              /\ result' = [raised |-> r.raised, tour |-> r.tour, cost |-> r.cost]
    /\ UNCHANGED <<tsp_instance, hash_seed, internals, previous>>

\* the tour starts as [start, farthest], farthest being the city farthest from start
StartInsertion ==
    /\ call = NotCalled
    /\ tsp_instance.dimension > 2
    /\ \E start \in StartArgs(tsp_instance.dimension) :
          LET unvisited == (0..(tsp_instance.dimension - 1)) \ {start}
              farthest == py_max(unvisited,
                                 [city \in unvisited |->
                                     get_distance(tsp_instance, start, city)])
          IN  /\ call' = [fn |-> "farthest_insertion_tour", arg |-> start]
              /\ internals' = [tour |-> <<start, farthest>>,
                               unvisited |-> unvisited \ {farthest}]
    /\ UNCHANGED <<tsp_instance, hash_seed, result, previous>>

\* one iteration of while unvisited
Insert ==
    /\ Inserting
    /\ internals.unvisited # {}
    /\ internals' = FarthestInsertionStep(tsp_instance, internals.tour, internals.unvisited)
    /\ UNCHANGED <<tsp_instance, hash_seed, call, result, previous>>

\* cost = calculate_tour_cost(tour, ...); return tour, cost
ReturnInsertion ==
    /\ Inserting
    /\ internals.unvisited = {}
    /\ result' = [raised |-> "none", tour |-> internals.tour,
                  cost |-> calculate_tour_cost(internals.tour, tsp_instance.distance_matrix)]
    /\ UNCHANGED <<tsp_instance, hash_seed, call, internals, previous>>

InsertionNext ==
    \/ DelegateToNearest
    \/ StartInsertion
    \/ Insert
    \/ ReturnInsertion

InsertionSpec == InsertionInit /\ [][InsertionNext]_vars

-----------------------------------------------------------------------------
(* Reference definitions for the properties *)

\* tour lists every index 0..n-1 exactly once
IsPermutation(tour, n) ==
    /\ Len(tour) = n
    /\ \A c \in 0..(n - 1) : Cardinality({i \in 1..Len(tour) : tour[i] = c}) = 1

\* the sum of distance(tour[k], tour[(k+1) mod n]) for k in [0, n)
CyclicCost(tour, inst) ==
    LET n == Len(tour)
        edge == [k \in 0..(n - 1) |->
                    inst.distance_matrix[tour[k + 1]][tour[((k + 1) % n) + 1]]]
        S[k \in 0..n] == IF k = 0 THEN 0 ELSE S[k - 1] + edge[k - 1]
    IN  S[n]

\* all orderings of the points 0..n-1, for n = 0..MaxN
Orderings ==
    [n \in 0..MaxN |->
        {p \in [1..n -> 0..(n - 1)] : \A i, j \in 1..n : i < j => p[i] # p[j]}]

\* the minimum cyclic cost over all orderings of the points (brute force)
OptimalCost(inst) == MinOf({CyclicCost(p, inst) : p \in Orderings[inst.dimension]})

called == call.fn
n_points == tsp_instance.dimension
ReturnedTour == result.raised = "none" /\ ~IsSentinel(result)

-----------------------------------------------------------------------------
(* C1: whenever held_karp_simple, solve_mst_approx, solve_hybrid_algorithm,  *)
(* nearest_neighbor_tour or farthest_insertion_tour returns a pair other     *)
(* than the sentinel, the tour has length n and holds every index 0..n-1     *)
(* exactly once, and is_valid_tour accepts it.                               *)
C1_ValidTour ==
    (called \in {"held_karp_simple", "solve_mst_approx", "solve_hybrid_algorithm",
                 "nearest_neighbor_tour", "farthest_insertion_tour"}
     /\ ReturnedTour)
    => /\ IsPermutation(result.tour, n_points)
       /\ is_valid_tour(result.tour, n_points)

\* the MST solver returned a tour on four points that Prim's tree did not all reach
C1_Witness ==
    /\ called = "solve_mst_approx"
    /\ ReturnedTour
    /\ n_points = 4
    /\ Len(internals.tree_edges) < 3

(* C2: for the Exact, MST and Hybrid solvers the returned cost is the cyclic *)
(* cost of the returned tour, the edge from the last point back to the first *)
(* included.                                                                 *)
C2_CostIsCyclicCost ==
    (called \in {"held_karp_simple", "solve_held_karp", "solve_mst_prim",
                 "solve_mst_kruskal", "solve_mst_approx", "solve_hybrid_algorithm"}
     /\ ReturnedTour)
    => /\ result.cost = CyclicCost(result.tour, tsp_instance)
       /\ result.cost = calculate_tour_cost(result.tour, tsp_instance.distance_matrix)

(* C3: for 2 <= n <= 20 held_karp_simple returns a tour anchored at point 0  *)
(* whose cost is the minimum cyclic cost over all orderings of the points;   *)
(* on the unit square the cost is the perimeter 4 and the tour is [0,1,2,3]  *)
(* or its reflection.  The brute-force reference covers n <= MaxN.           *)
C3_ExactIsOptimal ==
    (called = "held_karp_simple" /\ n_points >= 2 /\ n_points <= MaxN)
    => /\ ReturnedTour
       /\ result.tour[1] = 0
       /\ IsPermutation(result.tour, n_points)
       /\ result.cost = CyclicCost(result.tour, tsp_instance)
       /\ result.cost = OptimalCost(tsp_instance)
       /\ (tsp_instance = UnitSquareInstance
           => result.cost = 4 /\ result.tour \in {<<0, 1, 2, 3>>, <<0, 3, 2, 1>>})

\* the exact solver returned on an instance whose nearest-neighbor tour is not optimal
C3_Witness ==
    /\ called = "held_karp_simple"
    /\ n_points = 4
    /\ ReturnedTour
    /\ result.cost < nearest_neighbor_tour(tsp_instance, 0).cost

(* C4: for n <= 20, when both return a tour, the cost returned by             *)
(* solve_hybrid_algorithm is at least the cost returned by held_karp_simple. *)
C4_HybridNotBelowExact ==
    (called = "solve_hybrid_algorithm" /\ ReturnedTour /\ n_points <= MaxN
     /\ ~IsSentinel(held_karp_simple(tsp_instance)))
    => result.cost >= held_karp_simple(tsp_instance).cost

(* C5: for 3 <= n <= 20 the cost returned by solve_mst_approx is at least    *)
(* the cost returned by held_karp_simple.                                    *)
C5_MstNotBelowExact ==
    (called = "solve_mst_approx" /\ n_points >= 3 /\ n_points <= MaxN)
    => /\ ReturnedTour
       /\ result.cost >= held_karp_simple(tsp_instance).cost

\* the MST solver returned a tour strictly dearer than the optimum
C5_Witness ==
    /\ called = "solve_mst_approx"
    /\ n_points = 4
    /\ ReturnedTour
    /\ result.cost > held_karp_simple(tsp_instance).cost

(* C6: for n >= 3 and symmetric, non-negative distances that satisfy the     *)
(* triangle inequality, the cost returned by solve_mst_prim,                 *)
(* solve_mst_kruskal and solve_mst_approx is at most twice the total weight  *)
(* of the list of tree edges handed to build_tour_from_mst.                  *)
IsMetric(inst) ==
    LET P == 0..(inst.dimension - 1)
        d == inst.distance_matrix
    IN  /\ \A i, j \in P : d[i][j] = d[j][i] /\ d[i][j] >= 0
        /\ \A i, j, k \in P : d[i][k] <= d[i][j] + d[j][k]

TreeWeight(tree_edges, inst) ==
    LET W[k \in 0..Len(tree_edges)] ==
            IF k = 0 THEN 0
            ELSE W[k - 1] + inst.distance_matrix[tree_edges[k][1]][tree_edges[k][2]]
    IN  W[Len(tree_edges)]

C6_TwiceTreeWeight ==
    (called \in {"solve_mst_prim", "solve_mst_kruskal", "solve_mst_approx"}
     /\ n_points >= 3 /\ ReturnedTour /\ IsMetric(tsp_instance))
    => result.cost <= 2 * TreeWeight(internals.tree_edges, tsp_instance)

\* the outcome of the call is the outcome r
SameOutcome(r) ==
    result.raised = r.raised /\ result.tour = r.tour /\ result.cost = r.cost

(* C7: solve_hybrid_algorithm dispatches on n alone: for n <= 12 its result  *)
(* is that of simple_branch_bound; for 12 < n <= 100 it runs nearest         *)
(* neighbor and farthest insertion and returns the cheaper, nearest neighbor *)
(* on a tie; for n > 100 its result is the nearest-neighbor tour and cost.   *)
C7_HybridDispatch ==
    called = "solve_hybrid_algorithm"
    => LET nn == nearest_neighbor_tour(tsp_instance, 0)
           fi == farthest_insertion_tour(tsp_instance, 0)
       IN  /\ n_points <= 12
              => /\ internals.invoked = {"simple_branch_bound"}
                 /\ SameOutcome(simple_branch_bound(tsp_instance, call.arg))
           /\ (n_points > 12 /\ n_points <= 100)
              => /\ internals.invoked = {"nearest_neighbor_tour", "farthest_insertion_tour"}
                 /\ nn.cost <= fi.cost => SameOutcome(nn)
                 /\ nn.cost > fi.cost => SameOutcome(fi)
           /\ n_points > 100
              => /\ internals.invoked = {"nearest_neighbor_tour"}
                 /\ SameOutcome(nn)

\* the hybrid solver returned on more than 100 points, where farthest insertion
\* would have been cheaper
C7_Witness ==
    /\ called = "solve_hybrid_algorithm"
    /\ n_points > 100
    /\ ReturnedTour
    /\ farthest_insertion_tour(tsp_instance, 0).cost < result.cost

(* C8 as stated: called with n = 13, solve_hybrid_algorithm invokes the      *)
(* bounded search and, when neither budget is exhausted, returns the cost    *)
(* held_karp_simple returns on the same instance.                            *)
C8_ThirteenPointsSearched ==
    (called = "solve_hybrid_algorithm" /\ n_points = 13)
    => /\ "simple_branch_bound" \in internals.invoked
       /\ NeverExpires(call.arg) => result.cost = held_karp_simple(tsp_instance).cost

(* C8 amended: called with n = 13, solve_hybrid_algorithm does not invoke    *)
(* the bounded search; it invokes nearest neighbor and farthest insertion    *)
(* and returns the cheaper of their two tours with its cyclic cost.          *)
C8_ThirteenPointsHeuristics ==
    (called = "solve_hybrid_algorithm" /\ n_points = 13)
    => LET nn == nearest_neighbor_tour(tsp_instance, 0)
           fi == farthest_insertion_tour(tsp_instance, 0)
       IN  /\ internals.invoked = {"nearest_neighbor_tour", "farthest_insertion_tour"}
           /\ result.tour \in {nn.tour, fi.tour}
           /\ result.cost <= nn.cost /\ result.cost <= fi.cost
           /\ IsPermutation(result.tour, 13)
           /\ result.cost = CyclicCost(result.tour, tsp_instance)

\* the hybrid solver, never out of time, returned on the scattered 13 points a
\* cost above the one the exact solver returns
C8_Witness ==
    /\ called = "solve_hybrid_algorithm"
    /\ tsp_instance = ScatteredInstance(13)
    /\ NeverExpires(call.arg)
    /\ ReturnedTour
    /\ result.cost > held_karp_simple(tsp_instance).cost

(* C9: for n > 20 held_karp_simple, and solve_held_karp whatever its limit,  *)
(* return the sentinel (empty tour, infinity) and have created no DP state.  *)
C9_ExactDeclines ==
    (called \in {"held_karp_simple", "solve_held_karp"} /\ n_points > 20)
    => /\ IsSentinel(result)
       /\ DOMAIN internals = {}

\* solve_held_karp was called on more than 20 points with a limit above the size
C9_Witness ==
    /\ called = "solve_held_karp"
    /\ n_points > 20
    /\ call.arg > n_points
    /\ result.tour = <<>>

(* C10: for n = 0, 1 or 2 solve_mst_approx, solve_mst_prim and               *)
(* solve_mst_kruskal raise the too-few-points error (ValueError), return no  *)
(* tour and have built no tree edge.                                         *)
C10_TooFewPoints ==
    (called \in {"solve_mst_approx", "solve_mst_prim", "solve_mst_kruskal"}
     /\ n_points < 3)
    => /\ result.raised = "ValueError"
       /\ result.tour = <<>>
       /\ DOMAIN internals = {}

\* the MST solver was called with two points and raised
C10_Witness ==
    /\ called = "solve_mst_approx"
    /\ n_points = 2
    /\ result.raised = "ValueError"

(* C11 as stated: calculate_tour_cost called with an empty tour fails with   *)
(* an empty-tour error and returns no cost value.                            *)
C11_EmptyTourFails ==
    (called = "calculate_tour_cost" /\ call.arg = <<>>)
    => result.raised # "none"

(* C11 amended: calculate_tour_cost called with an empty tour raises no      *)
(* error and returns infinity as the cost.                                   *)
C11_EmptyTourCostsInfinity ==
    (called = "calculate_tour_cost" /\ call.arg = <<>>)
    => result = Value(Inf)

\* calculate_tour_cost was called with the empty tour on an instance of three
\* points and returned, while on a tour of one city it returned the cost 0
C11_Witness ==
    /\ called = "calculate_tour_cost"
    /\ call.arg = <<>>
    /\ n_points = 3
    /\ result.raised = "none"
    /\ calculate_tour_cost(<<0>>, tsp_instance.distance_matrix) = 0

(* C12: is_valid_tour(tour, n) returns true exactly when tour has n elements *)
(* and holds every index 0..n-1 once; it returns false for a tour with a     *)
(* repeated, a missing or an out-of-range index, and for the empty tour when *)
(* n > 0.                                                                    *)
C12_ValidIffPermutation ==
    called = "is_valid_tour"
    => LET tour == call.arg
           n == n_points
           cities == {tour[i] : i \in 1..Len(tour)}
       IN  /\ result.raised = "none"
           /\ result.value = (Len(tour) = n /\ cities = 0..(n - 1))
           /\ result.value = IsPermutation(tour, n)
           /\ (\E i, j \in 1..Len(tour) : i < j /\ tour[i] = tour[j]) => ~result.value
           /\ (\E c \in 0..(n - 1) : c \notin cities) => ~result.value
           /\ (\E c \in cities : c < 0 \/ c >= n) => ~result.value
           /\ (tour = <<>> /\ n > 0) => ~result.value

\* is_valid_tour rejected a list that holds every index of 0..2 and one of them twice
C12_Witness ==
    /\ called = "is_valid_tour"
    /\ n_points = 3
    /\ Len(call.arg) = 4
    /\ {call.arg[i] : i \in 1..4} = 0..2
    /\ result.value = FALSE

\* every city that follows another in tour is, among the cities the tour has
\* not reached before it, the least-numbered of those nearest to its predecessor
NearestInFixedOrder(tour, inst) ==
    \A k \in 1..(Len(tour) - 1) :
       LET unvisited == (0..(inst.dimension - 1)) \ {tour[i] : i \in 1..k}
           row == inst.distance_matrix[tour[k]]
           least == MinOf({row[c] : c \in unvisited})
       IN  tour[k + 1] = MinOf({c \in unvisited : row[c] = least})

SearchStarted == call.fn = "simple_branch_bound" /\ DOMAIN internals # {}

(* C14: in every state of the search of simple_branch_bound, from the        *)
(* nearest-neighbor baseline through every update, best_tour is a complete   *)
(* permutation of 0..n-1 that starts at point 0 and best_cost is the cyclic  *)
(* cost of best_tour, the edge from its last point back to point 0 included. *)
C14_BestIsCompleteCycle ==
    SearchStarted
    => /\ IsPermutation(internals.best_tour, n_points)
       /\ internals.best_tour[1] = 0
       /\ internals.best_cost = CyclicCost(internals.best_tour, tsp_instance)

\* the cutoff test has succeeded at some node: the time limit was exceeded or
\* the node counter is above the budget
CutoffSucceeded ==
    SearchStarted /\ (internals.expired_at > 0 \/ internals.nodes_checked > NodeBudget)

\* the frames of the stack that are running their for loop
Expanded(stack) == {i \in 1..Len(stack) : stack[i].pc = "loop"}

(* C15: the cutoff test (time limit exceeded, or node counter above 50000)   *)
(* is made on entry to every search node, before the node does anything      *)
(* else: a node at which it succeeds only returns.  Once it has succeeded,   *)
(* best_tour and best_cost are never modified again, no further node starts  *)
(* its loop, and simple_branch_bound returns best_tour and best_cost, a      *)
(* complete tour, without raising.                                           *)
C15_CutoffStopsSearch ==
    [][/\ (SearchStarted /\ internals'.nodes_checked = internals.nodes_checked + 1
           /\ CutoffSucceeded')
          => /\ internals'.stack = Pop(internals.stack)
             /\ internals'.best_tour = internals.best_tour
             /\ internals'.best_cost = internals.best_cost
       /\ CutoffSucceeded
          => /\ internals'.best_tour = internals.best_tour
             /\ internals'.best_cost = internals.best_cost
             /\ Expanded(internals'.stack) \subseteq Expanded(internals.stack)
             /\ result' # NoResult
                => /\ result'.raised = "none"
                   /\ result'.tour = internals.best_tour
                   /\ result'.cost = internals.best_cost
                   /\ IsPermutation(result'.tour, n_points)]_vars

(* C16: during the search best_cost never increases: every update of        *)
(* best_tour or best_cost replaces best_cost with a strictly smaller value,  *)
(* so best_cost, and the cost simple_branch_bound returns, is at most the    *)
(* nearest-neighbor baseline cost, whenever the search is cut off.           *)
C16_BestCostDecreases ==
    [][SearchStarted
       => /\ internals'.best_cost <= internals.best_cost
          /\ (internals'.best_cost # internals.best_cost
               \/ internals'.best_tour # internals.best_tour)
             => internals'.best_cost < internals.best_cost
          /\ internals'.best_cost <= internals'.baseline
          /\ result' # NoResult => result'.cost <= internals'.baseline]_vars

\* the search has returned a tour other than its baseline, at a cost more than
\* one below the baseline cost
C16_Witness ==
    /\ SearchStarted
    /\ result.raised = "none"
    /\ result.cost < internals.baseline - 1
    /\ result.tour # nearest_neighbor_tour(tsp_instance, 0).tour

\* the cost the search gives a tour: the sum of its edges as an open path,
\* current_cost as accumulated along the recursion
PathCost(tour, inst) ==
    LET S[k \in 1..Len(tour)] ==
            IF k = 1 THEN 0 ELSE S[k - 1] + inst.distance_matrix[tour[k - 1]][tour[k]]
    IN  S[Len(tour)]

\* the lists that hold every element of the set R once
OrderingsOf(R) ==
    {p \in [1..Cardinality(R) -> R] : \A i, j \in 1..Cardinality(R) : i < j => p[i] # p[j]}

\* the partial tours over 0..n-1 that start at point 0 and leave a point unvisited
PartialTours(n) ==
    UNION {{<<0>> \o p : p \in OrderingsOf(V)}
           : V \in (SUBSET (1..(n - 1))) \ {1..(n - 1)}}

\* twice the lower bound of the partial tour does not exceed twice the search's
\* cost of any complete tour that extends it
BoundHolds(inst, partial) ==
    LET remaining == (0..(inst.dimension - 1)) \ CitiesOf(partial)
    IN  \A rest \in OrderingsOf(remaining) :
           2 * PathCost(partial, inst) + twice_bound_calculation(inst, partial, remaining)
           <= 2 * PathCost(partial \o rest, inst)

(* C17: for every partial tour that starts at point 0 and leaves a point     *)
(* unvisited, the bound of the search (accumulated cost plus half the sum,   *)
(* over the unvisited points, of the least distance to another unvisited     *)
(* point, plus 0 when one point is unvisited) is at most the search's cost   *)
(* of every complete tour that extends it; so a node whose bound is at or    *)
(* above best_cost has no completion strictly cheaper than best_cost.        *)
C17_BoundIsLower ==
    (SearchStarted /\ n_points <= MaxN)
    => /\ internals.nodes_checked = 0
          => \A partial \in PartialTours(n_points) : BoundHolds(tsp_instance, partial)
       /\ (AtEntry /\ Top.remaining # <<>>)
          => /\ Top.current_cost = PathCost(Top.current_tour, tsp_instance)
             /\ BoundHolds(tsp_instance, Top.current_tour)
             /\ TwiceBound(Top) >= 2 * internals.best_cost
                => \A rest \in OrderingsOf(CitiesOf(Top.remaining)) :
                      PathCost(Top.current_tour \o rest, tsp_instance)
                      >= internals.best_cost

\* the search is at the entry of a node with two points unvisited at least whose
\* bound, above its accumulated cost, reaches best_cost
C17_Witness ==
    /\ AtEntry
    /\ n_points = 4
    /\ Len(Top.remaining) >= 2
    /\ internals.expired_at = 0
    /\ TwiceBound(Top) > 2 * Top.current_cost
    /\ TwiceBound(Top) >= 2 * internals.best_cost

\* the points of a mask
PointsOf(mask, n) == {i \in 0..(n - 1) : Bit(mask, i)}

\* the paths that start at point 0, visit the points of the set S once each and
\* end at last
PathsTo(S, last) == {<<0>> \o p \o <<last>> : p \in OrderingsOf(S \ {0, last})}

(* C18: when the subset-size loop of held_karp_simple has finished, the DP   *)
(* holds an entry for (mask, last) exactly when mask contains point 0 and    *)
(* last, last # 0 and mask has two points at least; the entry is the least   *)
(* cost of a path that starts at point 0, visits exactly the points of mask  *)
(* once each and ends at last, and parent[(mask, last)] is the point just    *)
(* before last on such a path of least cost.                                 *)
C18_TableIsPathMinimum ==
    (called = "held_karp_simple" /\ n_points <= MaxN)
    => LET n == n_points
           table == IF DOMAIN internals = {} THEN <<>> ELSE internals.table
       IN  /\ DOMAIN table =
                 {key \in (0..(2 ^ n - 1)) \X (0..(n - 1)) :
                     /\ Bit(key[1], 0) /\ Bit(key[1], key[2]) /\ key[2] # 0
                     /\ bits_count(key[1]) >= 2}
           /\ \A key \in DOMAIN table :
                 LET paths == PathsTo(PointsOf(key[1], n), key[2])
                     least == MinOf({PathCost(p, tsp_instance) : p \in paths})
                 IN  /\ table[key].cost = least
                     /\ \E p \in paths : /\ PathCost(p, tsp_instance) = least
                                          /\ p[Len(p) - 1] = table[key].parent

\* the table of a run on four points holds, for the full set of points, an entry
\* whose least path is not the one through the first candidate predecessor
C18_Witness ==
    /\ called = "held_karp_simple"
    /\ n_points = 4
    /\ <<15, 3>> \in DOMAIN internals.table
    /\ internals.table[<<15, 3>>].parent = 2
    /\ internals.table[<<15, 3>>].cost
       < internals.table[<<7, 1>>].cost + tsp_instance.distance_matrix[1][3]

\* the points joined to point 0 by the edges, found by adding neighbors k times
RECURSIVE ReachedFrom(_, _, _)
ReachedFrom(edges, reached, k) ==
    IF k = 0 THEN reached
    ELSE ReachedFrom(edges,
                     reached \cup {e[2] : e \in {f \in edges : f[1] \in reached}}
                             \cup {e[1] : e \in {f \in edges : f[2] \in reached}},
                     k - 1)

\* the list holds n - 1 edges that join all of 0..n-1: a spanning tree
IsSpanningTree(tree_edges, n) ==
    LET edges == {tree_edges[i] : i \in 1..Len(tree_edges)}
    IN  /\ Len(tree_edges) = n - 1
        /\ \A e \in edges : e[1] \in 0..(n - 1) /\ e[2] \in 0..(n - 1) /\ e[1] # e[2]
        /\ ReachedFrom(edges, {0}, n) = 0..(n - 1)

\* the least total weight of a spanning tree of the instance (brute force over
\* the sets of n - 1 pairs)
MinSpanningWeight(inst) ==
    LET n == inst.dimension
        trees == {T \in SUBSET Pairs(n) :
                     Cardinality(T) = n - 1 /\ ReachedFrom(T, {0}, n) = 0..(n - 1)}
        weight(T) == LET pick[S \in SUBSET T] ==
                             IF S = {} THEN 0
                             ELSE LET e == CHOOSE x \in S : TRUE
                                  IN  inst.distance_matrix[e[1]][e[2]] + pick[S \ {e}]
                     IN  pick[T]
    IN  MinOf({weight(T) : T \in trees})

(* C19: for n >= 3 and symmetric non-negative distances of any magnitude,    *)
(* solve_mst_prim and solve_mst_kruskal each hand build_tour_from_mst        *)
(* exactly n - 1 edges that form an acyclic connected graph over all n       *)
(* points, of the least total weight a spanning tree can have.               *)
C19_BothBuildMinimumTree ==
    (called \in {"solve_mst_prim", "solve_mst_kruskal"}
     /\ n_points >= 3 /\ n_points <= MaxN)
    => /\ IsSpanningTree(internals.tree_edges, n_points)
       /\ TreeWeight(internals.tree_edges, tsp_instance) = MinSpanningWeight(tsp_instance)

\* the position of the first occurrence of city in path
FirstIndex(path, city) == MinOf({i \in 1..Len(path) : path[i] = city})

\* the number of occurrences of city as the origin of an edge of the doubled list
OutDegree(mst_edges, city) ==
    Cardinality({i \in 1..Len(mst_edges) : mst_edges[i][1] = city})
    + Cardinality({i \in 1..Len(mst_edges) : mst_edges[i][2] = city})

(* C20: for n >= 1 and every edge list over 0..n-1, a spanning tree or not,  *)
(* build_tour_from_mst returns; its stack traversal takes each directed edge *)
(* of the doubled list at most once; the tour is a permutation of 0..n-1     *)
(* that begins with point 0, lists the reached points in the order of their  *)
(* first occurrence in the path of the traversal (the reversed pop order)    *)
(* and after them the points never reached, in increasing order.             *)
C20_TourFromAnyEdgeList ==
    (called = "build_tour_from_mst" /\ n_points >= 1)
    => LET n == n_points
           mst_edges == call.arg
           path == ReverseSeq(internals.traversal_path)
           left == internals.adjacency_lists
           reached == CitiesOf(path)
           r == Cardinality(reached)
           tour == result.tour
       IN  /\ result.raised = "none"
           /\ \A c \in 0..(n - 1) : Len(left[c]) <= OutDegree(mst_edges, c)
           /\ \A c \in 0..(n - 1) :
                 Cardinality({i \in 1..(Len(path) - 1) : path[i] = c})
                 = OutDegree(mst_edges, c) - Len(left[c])
           /\ Len(path) - 1 <= 2 * Len(mst_edges)
           /\ IsPermutation(tour, n)
           /\ tour[1] = 0
           /\ {tour[i] : i \in 1..r} = reached
           /\ \A i, j \in 1..r :
                 i < j => FirstIndex(path, tour[i]) < FirstIndex(path, tour[j])
           /\ \A i, j \in (r + 1)..n : i < j => tour[i] < tour[j]

\* build_tour_from_mst was called on three points with a repeated edge and a
\* loop that leave point 1 out; the traversal came back to points it had left
C20_Witness ==
    /\ called = "build_tour_from_mst"
    /\ n_points = 3
    /\ call.arg = <<<<0, 2>>, <<2, 0>>, <<2, 2>>>>
    /\ Len(internals.traversal_path) = 7
    /\ result.tour = <<0, 2, 1>>

\* solve_mst_approx has called solve_mst_prim (it runs or has returned)
ApproxStarted == call.fn = "solve_mst_approx" /\ DOMAIN internals # {}

\* an outcome without its trace
Outcome(r) == [raised |-> r.raised, tour |-> r.tour, cost |-> r.cost]

(* C21: solve_mst_approx on fewer than 500 points runs both constructions    *)
(* and returns the tour and cost of the one whose tour costs less, the dense *)
(* construction's when the costs are equal, so that its cost is the minimum  *)
(* of the two; on 500 points or more it never runs the edge-sort             *)
(* construction and returns exactly the tour and cost the dense construction *)
(* has built.                                                                *)
C21_ApproxKeepsCheaper ==
    ApproxStarted
    => /\ (n_points < KruskalLimit /\ result # NoResult)
          => LET dense == Outcome(solve_mst_prim(tsp_instance))
                 edge_sort == Outcome(solve_mst_kruskal(tsp_instance))
             IN  /\ internals.ran = {"solve_mst_prim", "solve_mst_kruskal"}
                 /\ internals.prim_result = dense
                 /\ internals.kruskal_result = edge_sort
                 /\ result.cost = MinOf({dense.cost, edge_sort.cost})
                 /\ dense.cost <= edge_sort.cost => result = dense
                 /\ dense.cost > edge_sort.cost => result = edge_sort
       /\ n_points >= KruskalLimit
          => /\ internals.ran = {"solve_mst_prim"}
             /\ internals.kruskal_result = NoResult
             /\ result # NoResult
                => /\ result = internals.prim_result
                   /\ result.raised = "none"
                   /\ result.tour = internals.hamiltonian_cycle
                   /\ result.cost = internals.total_cost
                   /\ Len(internals.prim.tree_edges) = n_points - 1
                   /\ IsPermutation(result.tour, n_points)

\* solve_mst_approx has run both constructions on four points and returned the
\* tour of the edge-sort construction, which costs less than the other
C21_Witness ==
    /\ ApproxStarted
    /\ tsp_instance = EdgeSortCheaperInstance
    /\ internals.ran = {"solve_mst_prim", "solve_mst_kruskal"}
    /\ internals.prim_result.cost = 14
    /\ result.cost = 10
    /\ result.tour = <<0, 1, 2, 3>>

\* farthest_insertion_tour has built its first tour (it runs or has returned)
InsertionStarted == call.fn = "farthest_insertion_tour" /\ DOMAIN internals # {}

\* the least distance from city to a point of the tour
NearestInTour(inst, city, tour) ==
    MinOf({inst.distance_matrix[city][tour[k]] : k \in 1..Len(tour)})

\* what the tour grows by when city goes between its k-th point and the next
\* one, the first point following the last
IncreaseAt(inst, tour, city, k) ==
    LET a == tour[k]
        b == tour[(k % Len(tour)) + 1]
    IN  inst.distance_matrix[a][city] + inst.distance_matrix[city][b]
        - inst.distance_matrix[a][b]

(* C22: at every iteration of farthest_insertion_tour on n >= 3 points the   *)
(* tour and unvisited are disjoint, the tour repeats no point, and together  *)
(* they hold exactly 0..n-1; every iteration moves exactly one point from    *)
(* unvisited into the tour, a point whose least distance to the tour is      *)
(* greatest among the unvisited ones, and puts it between two cyclically     *)
(* adjacent points of the tour where the increase of the cost is least.      *)
C22_InsertsFarthestCheapest ==
    [][/\ InsertionStarted'
          => /\ CitiesOf(internals'.tour) \cap internals'.unvisited = {}
             /\ Cardinality(CitiesOf(internals'.tour)) = Len(internals'.tour)
             /\ CitiesOf(internals'.tour) \cup internals'.unvisited = 0..(n_points - 1)
       /\ (InsertionStarted /\ internals' # internals)
          => LET tour == internals.tour
                 unvisited == internals.unvisited
                 moved == unvisited \ internals'.unvisited
             IN  /\ Cardinality(moved) = 1
                 /\ internals'.unvisited \subseteq unvisited
                 /\ Len(internals'.tour) = Len(tour) + 1
                 /\ \A city \in moved :
                       /\ \A other \in unvisited :
                             NearestInTour(tsp_instance, other, tour)
                             <= NearestInTour(tsp_instance, city, tour)
                       /\ \E k \in 1..Len(tour) :
                             /\ internals'.tour = SubSeq(tour, 1, k) \o <<city>>
                                                  \o SubSeq(tour, k + 1, Len(tour))
                             /\ \A j \in 1..Len(tour) :
                                   IncreaseAt(tsp_instance, tour, city, k)
                                   <= IncreaseAt(tsp_instance, tour, city, j)]_vars

\* on five points the third iteration has put point 3, the only one unvisited,
\* between points 0 and 4, where the tour grows by 0 and not by 4 or 6
C22_Witness ==
    /\ InsertionStarted
    /\ tsp_instance = DenseCheaperInstance
    /\ call.arg = 0
    /\ result = NoResult
    /\ internals.unvisited = {}
    /\ internals.tour = <<0, 3, 4, 1, 2>>
    /\ IncreaseAt(tsp_instance, <<0, 4, 1, 2>>, 3, 1) = 0
    /\ IncreaseAt(tsp_instance, <<0, 4, 1, 2>>, 3, 3) = 4

(* C23: held_karp_simple returns the sentinel (empty tour, infinity) only    *)
(* when n > 20: on every instance of 1 <= n <= 20 points it returns, without *)
(* raising, a tour that is not empty and is valid, with a finite cost.       *)
C23_ExactSolvesUpToLimit ==
    (called = "held_karp_simple" /\ 1 <= n_points /\ n_points <= HeldKarpLimit)
    => /\ ~IsSentinel(result)
       /\ result.raised = "none"
       /\ result.tour # <<>>
       /\ is_valid_tour(result.tour, n_points)
       /\ result.cost < Inf

====
